---- MODULE Spec2Model ----
(***************************************************************************)
(* Model of the streaming advice backend (backend/app):                    *)
(*   - services/openai_client.py   get_streaming_response                  *)
(*   - services/schema_validator.py SchemaValidator                        *)
(*   - services/pybaseball_service.py PyBaseballService                    *)
(*                                                                         *)
(* Data representation.                                                    *)
(*   A Python str is a sequence of text tokens; concatenation is \o.       *)
(*   A JSON value is a record [t, s, n]:                                   *)
(*     t = "str"  : s is the token sequence, n its length in characters    *)
(*     t = "num"  : n is the number in hundredths (0.8 is 80, 80 is 8000)  *)
(*     t = "null" : Python None                                            *)
(*     t = "list" : s = <<kind>> names the shape of the list               *)
(*   A Python dict is a sequence of [k, v] pairs in insertion order with   *)
(*   pairwise distinct keys.                                               *)
(***************************************************************************)
EXTENDS Integers, Sequences, FiniteSets, TLC

(* ----------------------------- bounds --------------------------------- *)
\* longest upstream event sequence one stream consumes
MaxEvents == 3
\* most fields of a JSON object text handed to finalization
MaxFields == 2

(* --------------------------- JSON values ------------------------------ *)
JStr(s, n) == [t |-> "str", s |-> s, n |-> n]
JNum(v) == [t |-> "num", s |-> <<>>, n |-> v]
JNull == [t |-> "null", s |-> <<>>, n |-> 0]
JList(kind) == [t |-> "list", s |-> <<kind>>, n |-> 0]

IsStr(v) == v.t = "str"
IsNum(v) == v.t = "num"

\* Python truthiness of a JSON value
Truthy(v) ==
    CASE v.t = "str" -> v.n > 0
      [] v.t = "num" -> v.n # 0
      [] v.t = "null" -> FALSE
      [] OTHER -> TRUE

\* value[:200]
Slice200(v) == IF v.n <= 200 THEN v ELSE JStr(v.s \o <<"[:200]">>, 200)

(* ---------------------------- dicts ----------------------------------- *)
Has(d, key) == \E i \in 1..Len(d) : d[i].k = key
Get(d, key) == d[CHOOSE i \in 1..Len(d) : d[i].k = key].v
Put(d, key, val) ==
    IF Has(d, key)
    THEN [i \in 1..Len(d) |-> IF d[i].k = key THEN [k |-> key, v |-> val] ELSE d[i]]
    ELSE Append(d, [k |-> key, v |-> val])

(* ------------------------- text tokens -------------------------------- *)
\* one  "key": value  member of a JSON object text
FieldTokens ==
    {"ma_adv", "ma_empty", "ma_num", "msg", "cs_80", "cs_150", "cs_neg", "cs_str",
     "conf_8000", "conf_neg", "conf_str", "score_50", "reas", "reas_num", "expl",
     "alts", "alts_bad", "model", "note_long", "output",
     "mid", "reas_null", "cs_null", "alts_null", "mid_null"}

FieldOf(tok) ==
    CASE tok = "ma_adv"    -> [k |-> "main_advice", v |-> JStr(<<"Start Allen">>, 11)]
      [] tok = "ma_empty"  -> [k |-> "main_advice", v |-> JStr(<<>>, 0)]
      [] tok = "ma_num"    -> [k |-> "main_advice", v |-> JNum(500)]
      [] tok = "msg"       -> [k |-> "message", v |-> JStr(<<"Bench him">>, 9)]
      [] tok = "cs_80"     -> [k |-> "confidence_score", v |-> JNum(80)]
      [] tok = "cs_150"    -> [k |-> "confidence_score", v |-> JNum(150)]
      [] tok = "cs_neg"    -> [k |-> "confidence_score", v |-> JNum(-50)]
      [] tok = "cs_str"    -> [k |-> "confidence_score", v |-> JStr(<<"high">>, 4)]
      [] tok = "conf_8000" -> [k |-> "confidence", v |-> JNum(8000)]
      [] tok = "conf_neg"  -> [k |-> "confidence", v |-> JNum(-500)]
      [] tok = "conf_str"  -> [k |-> "confidence", v |-> JStr(<<"high">>, 4)]
      [] tok = "score_50"  -> [k |-> "score", v |-> JNum(50)]
      [] tok = "reas"      -> [k |-> "reasoning", v |-> JStr(<<"Good matchup">>, 12)]
      [] tok = "reas_num"  -> [k |-> "reasoning", v |-> JNum(700)]
      [] tok = "expl"      -> [k |-> "explanation", v |-> JStr(<<"Weak defense ahead">>, 18)]
      [] tok = "alts"      -> [k |-> "alternatives", v |-> JList("strs")]
      [] tok = "alts_bad"  -> [k |-> "alternatives", v |-> JList("nums")]
      [] tok = "model"     -> [k |-> "model", v |-> JStr(<<"gpt-4.1">>, 7)]
      [] tok = "note_long" -> [k |-> "note", v |-> JStr(<<"long note">>, 250)]
      [] tok = "output"    -> [k |-> "output", v |-> JList("output_content")]
      [] tok = "mid"       -> [k |-> "model_identifier", v |-> JStr(<<"gpt-4.1">>, 7)]
      [] tok = "reas_null" -> [k |-> "reasoning", v |-> JNull]
      [] tok = "cs_null"   -> [k |-> "confidence_score", v |-> JNull]
      [] tok = "alts_null" -> [k |-> "alternatives", v |-> JNull]
      [] tok = "mid_null"  -> [k |-> "model_identifier", v |-> JNull]

\* characters of one token of the raw text
TokWidth(tok) ==
    CASE tok = "ws" -> 1
      [] tok = "prose" -> 24
      [] tok = "longprose" -> 150
      [] tok = "{" -> 1
      [] tok = "}" -> 1
      [] tok = "No response received" -> 20
      [] OTHER -> 30

RECURSIVE TextLen(_)
TextLen(text) == IF text = <<>> THEN 0 ELSE TokWidth(Head(text)) + TextLen(Tail(text))

\* the Python str of a raw text, as a JSON string value
StrOf(text) == JStr(text, TextLen(text))

\* str.strip()
RECURSIVE LStrip(_)
LStrip(text) ==
    IF text # <<>> /\ Head(text) = "ws" THEN LStrip(Tail(text)) ELSE text
RECURSIVE RStrip(_)
RStrip(text) ==
    IF text # <<>> /\ text[Len(text)] = "ws"
    THEN RStrip(SubSeq(text, 1, Len(text) - 1)) ELSE text
Strip(text) == RStrip(LStrip(text))

StartsWith(text, tok) == text # <<>> /\ Head(text) = tok

(* ---------------------------- json.loads ------------------------------ *)
RECURSIVE DictOfFields(_, _)
DictOfFields(toks, acc) ==
    IF toks = <<>> THEN acc
    ELSE LET f == FieldOf(Head(toks))
         IN DictOfFields(Tail(toks), Put(acc, f.k, f.v))

\* kind "obj": a dict; "list": valid JSON that is no object; "fail": JSONDecodeError
ParseJSON(text) ==
    LET body == Strip(text)
        inner == SubSeq(body, 2, Len(body) - 1)
    IN IF body = <<"[]">> THEN [kind |-> "list", obj |-> <<>>]
       ELSE IF /\ Len(body) >= 2
               /\ body[1] = "{"
               /\ body[Len(body)] = "}"
               /\ \A i \in 1..Len(inner) : inner[i] \in FieldTokens
            THEN [kind |-> "obj", obj |-> DictOfFields(inner, <<>>)]
            ELSE [kind |-> "fail", obj |-> <<>>]

\* json.dumps of a dict whose members have a text in the vocabulary
Dumps(d) ==
    <<"{">> \o [i \in 1..Len(d) |-> CHOOSE tok \in FieldTokens : FieldOf(tok) = d[i]]
           \o <<"}">>

(* ------------------- SchemaValidator._load_schema --------------------- *)
\* The schema the validator holds after construction: the file written by
\* generate_schema_standalone.py ("standalone"), the file written by
\* generate_schema.py from the pydantic model ("pydantic"), or the built-in
\* minimal schema used when the file cannot be loaded ("minimal").
SchemaKinds == {"standalone", "pydantic", "minimal"}

SchemaProps == {"main_advice", "reasoning", "confidence_score", "alternatives", "model_identifier"}

(* --------------- SchemaValidator._transform_json_format --------------- *)
MainAdviceAliases ==
    <<"message", "advice", "recommendation", "answer", "response", "text", "content", "summary">>
ConfidenceAliases == <<"confidence", "score", "certainty", "probability">>
ReasoningAliases == <<"explanation", "rationale", "analysis", "details", "description">>

GenericAdvice == JStr(<<"Response processing error. Please try again with a more specific question.">>, 74)
DefaultReasoning == JStr(<<"Based on analysis of available data and statistical patterns.">>, 61)
UnknownModel == JStr(<<"unknown_model">>, 13)

\* index of the first alias that is a key of d holding a str, 0 when none
FirstStrAlias(d, aliases) ==
    LET hits == {i \in 1..Len(aliases) : Has(d, aliases[i]) /\ IsStr(Get(d, aliases[i]))}
    IN IF hits = {} THEN 0 ELSE CHOOSE i \in hits : \A j \in hits : i <= j

\* float(value): TRUE when it succeeds
FloatOk(v) == IsNum(v)

\* if conf_value > 1: conf_value = min(conf_value, 100) / 100
NormalizeConfidence(v) ==
    IF v > 100 THEN (IF v < 10000 THEN v ELSE 10000) \div 100 ELSE v

\* index of the first confidence alias present in d whose value float() accepts
FirstFloatAlias(d) ==
    LET hits == {i \in 1..Len(ConfidenceAliases) :
                    Has(d, ConfidenceAliases[i]) /\ FloatOk(Get(d, ConfidenceAliases[i]))}
    IN IF hits = {} THEN 0 ELSE CHOOSE i \in hits : \A j \in hits : i <= j

\* item['content'] / content_item['text'] found in the 'output' list
OutputHasContent(d) ==
    Has(d, "output") /\ Get(d, "output") = JList("output_content")
OutputContent == JStr(<<"output content text">>, 19)

\* first str value longer than 10 characters, in dict order; 0 when none
FirstLongStr(d) ==
    LET hits == {i \in 1..Len(d) : IsStr(d[i].v) /\ d[i].v.n > 10}
    IN IF hits = {} THEN 0 ELSE CHOOSE i \in hits : \A j \in hits : i <= j

TransformMainAdvice(d) ==
    IF Has(d, "main_advice") THEN d
    ELSE LET a == FirstStrAlias(d, MainAdviceAliases)
             l == FirstLongStr(d)
         IN IF a # 0 THEN Put(d, "main_advice", Get(d, MainAdviceAliases[a]))
            ELSE IF OutputHasContent(d) THEN Put(d, "main_advice", OutputContent)
            ELSE IF l # 0 THEN Put(d, "main_advice", Slice200(d[l].v))
            ELSE Put(d, "main_advice", GenericAdvice)

TransformConfidence(d) ==
    IF Has(d, "confidence_score") THEN d
    ELSE LET c == FirstFloatAlias(d)
         IN IF c # 0
            THEN Put(d, "confidence_score",
                     JNum(NormalizeConfidence(Get(d, ConfidenceAliases[c]).n)))
            ELSE Put(d, "confidence_score", JNum(70))

TransformReasoning(d) ==
    IF Has(d, "reasoning") THEN d
    ELSE LET r == FirstStrAlias(d, ReasoningAliases)
         IN IF r # 0 THEN Put(d, "reasoning", Get(d, ReasoningAliases[r]))
            ELSE Put(d, "reasoning", DefaultReasoning)

TransformAlternatives(d) ==
    IF Has(d, "alternatives") THEN d ELSE Put(d, "alternatives", JNull)

TransformModel(d) ==
    IF Has(d, "model_identifier") THEN d
    ELSE IF Has(d, "model") THEN Put(d, "model_identifier", Get(d, "model"))
    ELSE Put(d, "model_identifier", UnknownModel)

TransformJsonFormat(d) ==
    TransformModel(TransformAlternatives(TransformReasoning(
        TransformConfidence(TransformMainAdvice(d)))))

(* ------------------ jsonschema.validate(instance, schema) ------------- *)
StrOrNull(v) == v.t \in {"str", "null"}
ScoreInRange(v) == v.t = "null" \/ (v.t = "num" /\ 0 <= v.n /\ v.n <= 100)
StrListOrNull(v) == v.t = "null" \/ v = JList("strs")

\* the typed properties shared by the generated schemas
TypedPropsOk(d) ==
    /\ Has(d, "main_advice") /\ IsStr(Get(d, "main_advice"))
    /\ Has(d, "reasoning") => StrOrNull(Get(d, "reasoning"))
    /\ Has(d, "confidence_score") => ScoreInRange(Get(d, "confidence_score"))
    /\ Has(d, "alternatives") => StrListOrNull(Get(d, "alternatives"))
    /\ Has(d, "model_identifier") => StrOrNull(Get(d, "model_identifier"))

SchemaAccepts(kind, d) ==
    CASE kind = "minimal" -> Has(d, "main_advice") /\ IsStr(Get(d, "main_advice"))
      [] kind = "pydantic" -> TypedPropsOk(d)
      [] OTHER -> TypedPropsOk(d) /\ \A i \in 1..Len(d) : d[i].k \in SchemaProps

(* -------------------- SchemaValidator.validate_json ------------------- *)
Valid == [valid |-> TRUE, err |-> "None"]
Invalid(msg) == [valid |-> FALSE, err |-> msg]

\* validate_json on a dict
ValidateDict(kind, d) ==
    IF SchemaAccepts(kind, TransformJsonFormat(d)) THEN Valid
    ELSE Invalid("Schema validation failed")

\* validate_json on a str
ValidateJson(kind, text) ==
    LET p == ParseJSON(text)
    IN CASE p.kind = "fail" -> Invalid("Invalid JSON format")
         [] p.kind = "list" -> Invalid("Validation error")
         [] OTHER -> ValidateDict(kind, p.obj)

(* --------------- SchemaValidator.validate_streaming_chunk ------------- *)
\* a validator that reports what it finds whether or not the stream is complete
ValidateStreamingChunk_Strict(kind, text, is_complete) ==
    IF Strip(text) = <<>> THEN Valid ELSE ValidateJson(kind, text)

ValidateStreamingChunk(kind, text, is_complete) ==
    LET p == ParseJSON(text)
    IN IF Strip(text) = <<>> THEN Valid
       ELSE IF is_complete THEN ValidateJson(kind, text)
       ELSE CASE p.kind = "fail" -> Valid
              [] p.kind = "list" ->
                    IF is_complete THEN Invalid("Validation error") ELSE Valid
              [] OTHER ->
                    IF SchemaAccepts(kind, TransformJsonFormat(p.obj)) THEN Valid
                    ELSE IF is_complete THEN Invalid("Schema validation failed")
                    ELSE Valid

(* --------------- SchemaValidator.create_fallback_response ------------- *)
Apology == JStr(<<"Sorry, I encountered an error generating a proper response.">>, 59)
ValidationFallback == JStr(<<"validation_fallback">>, 19)

\* reasoning += "\n\nNote: Response required transformation due to: {error_msg}"
WithNote(v, err) ==
    JStr(v.s \o <<"Note: Response required transformation due to: ", err>>, v.n + 89)

DefaultFallback(text, err) ==
    LET clean == Strip(text)
    IN << [k |-> "main_advice",
           v |-> IF clean # <<>> /\ ~StartsWith(clean, "{") /\ ~StartsWith(clean, "[]")
                 THEN Slice200(StrOf(clean)) ELSE Apology],
          [k |-> "reasoning",
           v |-> JStr(<<"Response validation failed: ", err,
                        ". Please try rephrasing your question.">>, 106)],
          [k |-> "confidence_score", v |-> JNum(10)],
          [k |-> "alternatives", v |-> JNull],
          [k |-> "model_identifier", v |-> ValidationFallback] >>

CreateFallbackResponse(text, err) ==
    LET p == ParseJSON(text)
        td == TransformJsonFormat(p.obj)
    IN IF /\ StartsWith(Strip(text), "{")
          /\ p.kind = "obj"
          /\ Truthy(Get(td, "main_advice"))
          /\ IsStr(Get(td, "reasoning"))
       THEN Put(td, "reasoning", WithNote(Get(td, "reasoning"), err))
       ELSE DefaultFallback(text, err)

(* ------------- StructuredAdvice (pydantic model, models.py) ----------- *)
\* model_validate_json(text) succeeds
PydanticAccepts(text) ==
    LET p == ParseJSON(text)
    IN p.kind = "obj" /\ TypedPropsOk(p.obj)

FieldOrNone(d, key) == [k |-> key, v |-> IF Has(d, key) THEN Get(d, key) ELSE JNull]

\* model_dump(): the five declared fields, undeclared keys dropped
ModelDump(d) ==
    << FieldOrNone(d, "main_advice"), FieldOrNone(d, "reasoning"),
       FieldOrNone(d, "confidence_score"), FieldOrNone(d, "alternatives"),
       FieldOrNone(d, "model_identifier") >>

(* ====================================================================== *)
(*                 openai_client.get_streaming_response                    *)
(* ====================================================================== *)
VARIABLES
    schema,                 \* schema_validator.schema, fixed at construction
    pc,                     \* "open": before responses.create; "loop": in the
                            \* async for; "done": generator finished; "logged":
                            \* the wrapper has handled the response_complete
                            \* chunk; "cancelled": the request task was cancelled
    event,                  \* the upstream event being handled (last consumed)
    event_count,
    accumulated_content,
    response_id_captured,
    func_call_name,
    func_call_args_buffer,
    out,                    \* downstream events yielded so far, in order
    calls,                  \* lookups sent to the PyBaseball service, in order
    upstream_text,          \* concatenation of the TextDelta payloads upstream sent
    family,                 \* which optional events this stream's upstream uses
    requests,               \* number of calls of async_client.responses.create
    raised,                 \* the exception the upstream raised, "None" if none
    consumer,               \* "connected", or "gone" once the client disconnected
    store,                  \* the confidence_logs table, in insertion order
    sessions,               \* the update_outcome calls in progress, one db session each
    input,                  \* arguments of the pure function under analysis
    ret,                    \* what that function returned
    phrases_data,           \* ConfidencePhraseTuner.phrases_data, in memory
    phrases_file            \* the contents of confidence-phrases.json on disk

vars == <<schema, pc, event, event_count, accumulated_content, response_id_captured,
          func_call_name, func_call_args_buffer, out, calls, upstream_text, family,
          requests, raised, consumer, store, sessions, input, ret,
          phrases_data, phrases_file>>

\* the state of one request's stream
streamVars == <<schema, pc, event, event_count, accumulated_content, response_id_captured,
                func_call_name, func_call_args_buffer, out, calls, upstream_text, family,
                requests, raised, consumer>>

\* what a stream's handlers never touch
\* the phrase tuner's state
tunerVars == <<phrases_data, phrases_file>>

offStream == <<sessions, input, ret, phrases_data, phrases_file>>

(* --------------------------- upstream events -------------------------- *)
Ev(type) ==
    [type |-> type, id |-> "None", delta |-> <<>>, item |-> "None", name |-> "None",
     args |-> <<>>, has_fc |-> FALSE, has_args |-> FALSE,
     has_error |-> FALSE, has_message |-> FALSE]

NoEvent == Ev("None")

ResponseIds == {"resp_1", "resp_2"}

\* text fragments upstream sends as TextDelta payloads
StreamDeltas == { <<"prose">>, <<"{", "ma_adv", "cs_150", "}">> }

\* the tools get_streaming_response routes to the PyBaseball service
ToolNames == {"get_mlb_player_stats", "get_mlb_standings", "search_mlb_players"}
\* names upstream sends; "None" is an event that carries no name
UpstreamNames == {"get_mlb_player_stats", "unknown_tool", "None"}

\* names the legacy events carry; "None" is a function_call without a name
LegacyNames == {"get_mlb_player_stats", "None"}

\* fragments of argument text
ArgDeltas == { <<"{k}">>, <<"{">>, <<"[1]">> }

ItemTypes == {"web_search_call", "message", "function_call"}
\* the logged-only events upstream sends
UpstreamLoggedOnly == {"response.web_search_call.in_progress", "response.output_text.done"}

NameTypes == {"response.function_call.name", "response.function_call_name"}
LoggedOnlyTypes ==
    {"response.output_text.done", "response.in_progress",
     "response.web_search_call.in_progress", "response.content_part.added",
     "response.content_part.done"}
ErrorTypes == {"response.error", "response.failed"}
UnknownTypes == {"response.future_event"}

\* Bound on the input.  Every stream may carry the core events (created, text
\* delta, completed) and upstream failures; besides these, one stream uses the
\* events of one family: status/progress events, error and unknown events,
\* new-style function-call events, or legacy function-call events.
Families == {"status", "errors", "new_tools", "legacy_tools"}

CoreTypes == {"response.created", "response.output_text.delta", "response.completed"}
FamilyTypes(f) ==
    CASE f = "status" ->
            {"response.web_search_call.searching", "response.web_search_call.completed",
             "response.output_item.added", "response.output_item.done",
             "response.output_text.annotation.added"}
                \cup LoggedOnlyTypes
      [] f = "errors" -> ErrorTypes \cup UnknownTypes
      [] f = "new_tools" ->
            {"response.function_call_arguments.delta",
             "response.function_call_arguments.done"} \cup NameTypes
      [] OTHER -> {"response.function_call", "response.function_call.done"}

KnownTypes ==
    {"response.created", "response.web_search_call.searching", "response.output_text.delta",
     "response.output_item.added", "response.web_search_call.completed",
     "response.function_call_arguments.delta", "response.function_call_arguments.done",
     "response.function_call", "response.function_call.done", "response.output_item.done",
     "response.output_text.annotation.added", "response.completed"}
        \cup NameTypes \cup LoggedOnlyTypes \cup ErrorTypes

(* -------------------------- downstream events ------------------------- *)
\* cause: the number of the upstream event (or of the failed read) that made
\* the generator yield this event
Dn(ev, status) ==
    [event |-> ev, status |-> status, delta |-> <<>>, final |-> <<>>, rid |-> "None",
     tool |-> "None", note |-> "None", cause |-> event_count + 1]

StatusUpdate(status) == Dn("status_update", status)
TextDelta(delta) == [Dn("text_delta", "None") EXCEPT !.delta = delta]
ToolResult(tool, result) == [Dn("tool_result", "None") EXCEPT !.tool = tool, !.note = result]
ToolError(tool) == [Dn("tool_error", "None") EXCEPT !.tool = tool]
ErrorEvent(code) == Dn("error", code)
ResponseComplete(final, rid, note) ==
    [Dn("response_complete", "complete") EXCEPT !.final = final, !.rid = rid, !.note = note]

(* ------------------- PyBaseballService._call_tool --------------------- *)
\* what the lookup service does with one request
SvcOutcomes == {"data", "null", "http_error", "timeout"}
SvcFailures == {"http_error", "timeout"}

\* the value _call_tool returns; "None" is Python None, "" the empty str
CallTool(outcome) ==
    CASE outcome = "data" -> "payload"
      [] outcome = "null" -> "None"
      [] outcome = "empty" -> ""
      [] OTHER -> "Error retrieving data"

(* ----------------------- the initial state ---------------------------- *)
Init ==
    /\ schema \in SchemaKinds
    /\ pc = "open"
    /\ event = NoEvent
    /\ event_count = 0
    /\ accumulated_content = <<>>
    /\ response_id_captured = "None"
    /\ func_call_name = "None"
    /\ func_call_args_buffer = <<>>
    /\ out = <<>>
    /\ calls = <<>>
    /\ upstream_text = <<>>
    /\ family \in Families
    /\ requests = 0
    /\ raised = "None"
    /\ consumer = "connected"
    /\ store = <<>>
    /\ sessions = <<>>
    /\ phrases_data = <<>>
    /\ phrases_file = <<>>
    /\ input = <<>>
    /\ ret = <<>>

\* response = await async_client.responses.create(**api_params)
Open ==
    /\ pc = "open"
    /\ pc' = "loop"
    /\ requests' = requests + 1
    /\ UNCHANGED <<raised, consumer, store>>
    /\ UNCHANGED offStream
    /\ UNCHANGED <<schema, family, event, event_count, accumulated_content, response_id_captured,
                   func_call_name, func_call_args_buffer, out, calls, upstream_text>>

\* the async for delivers ev: the bookkeeping every handler shares
Consume(ev) ==
    /\ pc = "loop"
    /\ event_count < MaxEvents
    /\ ev.type \in CoreTypes \cup FamilyTypes(family)
    /\ event' = ev
    /\ event_count' = event_count + 1
    /\ schema' = schema
    /\ family' = family
    /\ UNCHANGED <<requests, raised, store>>
    /\ UNCHANGED offStream

\* ... by a task that is not cancelled while it handles ev
Receive(ev) == Consume(ev) /\ consumer' = consumer

Yield(evs) == out' = out \o evs

(* ------------------------- event handlers ----------------------------- *)
CaptureId_First(captured, id) == IF captured = "None" THEN id ELSE captured

\* response_id_captured = event.response.id, when the event carries one
CaptureId(captured, id) == IF id # "None" THEN id ELSE captured

\* evt_type == "response.created"
HandleCreated ==
    \E id \in ResponseIds \cup {"None"} :
        /\ Receive([Ev("response.created") EXCEPT !.id = id])
        /\ response_id_captured' = CaptureId(response_id_captured, id)
        /\ Yield(<< [StatusUpdate("created") EXCEPT !.rid = id] >>)
        /\ UNCHANGED <<pc, accumulated_content, func_call_name, func_call_args_buffer,
                       calls, upstream_text>>

HandleWebSearchSearching ==
    /\ Receive(Ev("response.web_search_call.searching"))
    /\ Yield(<< StatusUpdate("web_search_searching") >>)
    /\ UNCHANGED <<pc, accumulated_content, response_id_captured, func_call_name,
                   func_call_args_buffer, calls, upstream_text>>

RelayDelta_Batched(d) == IF Len(accumulated_content) > 0 THEN << TextDelta(d) >> ELSE <<>>

\* yield of the text_delta branch
RelayDelta(d) == << TextDelta(d) >>

HandleTextDelta ==
    \E d \in StreamDeltas :
        /\ Receive([Ev("response.output_text.delta") EXCEPT !.delta = d])
        /\ accumulated_content' = accumulated_content \o d
        /\ upstream_text' = upstream_text \o d
        /\ Yield(RelayDelta(d))
        /\ UNCHANGED <<pc, response_id_captured, func_call_name, func_call_args_buffer, calls>>

\* branches that only log and continue
HandleLoggedOnly ==
    \E type \in LoggedOnlyTypes \cap UpstreamLoggedOnly :
        /\ Receive(Ev(type))
        /\ UNCHANGED <<pc, accumulated_content, response_id_captured, func_call_name,
                       func_call_args_buffer, out, calls, upstream_text>>

ItemAddedStatus_NoMessage(item) ==
    CASE item = "web_search_call" -> << StatusUpdate("web_search_started") >>
      [] OTHER -> <<>>

ItemAddedStatus(item) ==
    CASE item = "web_search_call" -> << StatusUpdate("web_search_started") >>
      [] item = "message" -> << StatusUpdate("message_start") >>
      [] OTHER -> <<>>

HandleOutputItemAdded ==
    \E item \in ItemTypes :
        /\ Receive([Ev("response.output_item.added") EXCEPT !.item = item])
        /\ Yield(ItemAddedStatus(item))
        /\ UNCHANGED <<pc, accumulated_content, response_id_captured, func_call_name,
                       func_call_args_buffer, calls, upstream_text>>

HandleWebSearchCompleted ==
    /\ Receive(Ev("response.web_search_call.completed"))
    /\ Yield(<< StatusUpdate("web_search_completed") >>)
    /\ UNCHANGED <<pc, accumulated_content, response_id_captured, func_call_name,
                   func_call_args_buffer, calls, upstream_text>>

HandleFunctionCallName ==
    \E type \in NameTypes, name \in UpstreamNames :
        /\ Receive([Ev(type) EXCEPT !.name = name])
        /\ func_call_name' = name
        /\ Yield(IF name # "None"
                 THEN << [StatusUpdate("function_call_started") EXCEPT !.tool = name] >>
                 ELSE <<>>)
        /\ UNCHANGED <<pc, accumulated_content, response_id_captured,
                       func_call_args_buffer, calls, upstream_text>>

HandleArgumentsDelta ==
    \E d \in ArgDeltas :
        /\ Receive([Ev("response.function_call_arguments.delta") EXCEPT !.args = d])
        /\ func_call_args_buffer' = func_call_args_buffer \o d
        /\ UNCHANGED <<pc, accumulated_content, response_id_captured, func_call_name,
                       out, calls, upstream_text>>

\* json.loads of an argument text: "{k}" a non-empty dict, "{}" the empty dict,
\* "[1]" a JSON value that is no dict, "fail" a JSONDecodeError
LoadArgs(buf) ==
    CASE buf = <<"{k}">> -> "{k}"
      [] buf = <<"{}">> -> "{}"
      [] buf = <<"[1]">> -> "[1]"
      [] OTHER -> "fail"

\* args of the new-style handler: json.loads(buffer or "{}"), {} on JSONDecodeError
NewStyleArgs(buf) ==
    LET a == LoadArgs(IF buf = <<>> THEN <<"{}">> ELSE buf)
    IN IF a = "fail" THEN "{}" ELSE a

\* the routing of one call: what is yielded and what is asked of the service.
\* args.get raises on a value that is no dict, inside the try.
Dispatch(name, args, outcome, truthy_only) ==
    LET result == CallTool(outcome)
        shown == IF truthy_only THEN result \notin {"None", ""} ELSE result # "None"
    IN IF name \notin ToolNames THEN [yield |-> <<>>, asked |-> FALSE]
       ELSE IF args = "[1]" THEN [yield |-> << ToolError(name) >>, asked |-> FALSE]
       ELSE [yield |-> IF shown
                       THEN << ToolResult(name, result),
                               [StatusUpdate("function_call_completed") EXCEPT !.tool = name] >>
                       ELSE <<>>,
             asked |-> TRUE]

Call(name, args, outcome) ==
    [tool |-> name, args |-> args, outcome |-> outcome, at |-> event_count + 1]

HandleArgumentsDone ==
    \E outcome \in SvcOutcomes :
        LET args == NewStyleArgs(func_call_args_buffer)
            d == Dispatch(func_call_name, args, outcome, FALSE)
        IN /\ Receive(Ev("response.function_call_arguments.done"))
           /\ Yield(d.yield)
           /\ calls' = IF d.asked THEN Append(calls, Call(func_call_name, args, outcome))
                       ELSE calls
           /\ func_call_name' = "None"
           /\ func_call_args_buffer' = <<>>
           /\ UNCHANGED <<pc, accumulated_content, response_id_captured, upstream_text>>

\* func_call.name if hasattr(func_call, 'name') else ''
LegacyName(ev) == IF ev.name = "None" THEN "" ELSE ev.name

HandleLegacyFunctionCall ==
    \E has_fc \in BOOLEAN, name \in LegacyNames :
        LET ev == [Ev("response.function_call") EXCEPT !.has_fc = has_fc, !.name = name]
        IN /\ has_fc = FALSE => name = "None"
           /\ Receive(ev)
           /\ Yield(IF has_fc
                    THEN << [StatusUpdate("function_call_started") EXCEPT !.tool = LegacyName(ev)] >>
                    ELSE <<>>)
           /\ UNCHANGED <<pc, accumulated_content, response_id_captured, func_call_name,
                          func_call_args_buffer, calls, upstream_text>>

\* the event without a function_call attribute, with a function_call that has
\* no arguments attribute, and with an arguments text
LegacyDoneEvents ==
    { Ev("response.function_call.done") }
    \cup { [Ev("response.function_call.done") EXCEPT !.has_fc = TRUE, !.name = name] :
              name \in LegacyNames }
    \cup { [Ev("response.function_call.done") EXCEPT
              !.has_fc = TRUE, !.name = name, !.has_args = TRUE, !.args = args] :
              name \in LegacyNames, args \in ArgDeltas }

\* json.loads(func_call.arguments) is evaluated outside the try: a
\* JSONDecodeError leaves the loop and reaches the generic except clause
HandleLegacyFunctionCallDone ==
    \E ev \in LegacyDoneEvents, outcome \in SvcOutcomes :
        LET args == IF ev.has_args THEN LoadArgs(ev.args) ELSE "{}"
            d == Dispatch(LegacyName(ev), args, outcome, TRUE)
        IN /\ Receive(ev)
           /\ IF ~ev.has_fc
              THEN /\ UNCHANGED <<pc, out, calls>>
              ELSE IF args = "fail"
              THEN /\ pc' = "done"
                   /\ Yield(<< ErrorEvent("UNEXPECTED_ERROR") >>)
                   /\ UNCHANGED calls
              ELSE /\ pc' = pc
                   /\ Yield(d.yield)
                   /\ calls' = IF d.asked
                               THEN Append(calls, Call(LegacyName(ev), args, outcome))
                               ELSE calls
           /\ UNCHANGED <<accumulated_content, response_id_captured, func_call_name,
                          func_call_args_buffer, upstream_text>>

HandleOutputItemDone ==
    \E item \in ItemTypes :
        /\ Receive([Ev("response.output_item.done") EXCEPT !.item = item])
        /\ Yield(IF item = "message"
                 THEN << StatusUpdate("message_generating_done") >>
                 ELSE <<>>)
        /\ UNCHANGED <<pc, accumulated_content, response_id_captured, func_call_name,
                       func_call_args_buffer, calls, upstream_text>>

HandleAnnotationAdded ==
    /\ Receive(Ev("response.output_text.annotation.added"))
    /\ Yield(<< StatusUpdate("annotation_found") >>)
    /\ UNCHANGED <<pc, accumulated_content, response_id_captured, func_call_name,
                   func_call_args_buffer, calls, upstream_text>>

(* --------------- evt_type == "response.completed" --------------------- *)
\* the model parameter of the request
RequestModel == JStr(<<"gpt-4.1">>, 7)

\* a dump that stamps every record with the model of the request
AdviceDict_Stamped(text) ==
    Put(ModelDump(IF StartsWith(Strip(text), "{") THEN ParseJSON(text).obj
                  ELSE << [k |-> "main_advice", v |-> StrOf(Strip(text))] >>),
        "model_identifier", RequestModel)

\* parsed_advice.model_dump() of the validated content
AdviceDict(text) ==
    IF StartsWith(Strip(text), "{")
    THEN ModelDump(ParseJSON(text).obj)
    ELSE ModelDump(<< [k |-> "main_advice", v |-> StrOf(Strip(text))],
                      [k |-> "model_identifier", v |-> RequestModel] >>)

\* text handed to the fallback by the except clause:
\* accumulated_content.strip() or "No response received"
ExceptText(text) ==
    IF Strip(text) # <<>> THEN Strip(text) ELSE <<"No response received">>

\* final_data of the response_complete event: final_json and which of
\* validation_error / parse_error it carries
FinalData(kind, text) ==
    LET first == ValidateStreamingChunk(kind, text, TRUE)
        second == ValidateDict(kind, AdviceDict(text))
    IN IF ~first.valid
       THEN [final |-> CreateFallbackResponse(text, first.err), note |-> "validation_error"]
       ELSE IF StartsWith(Strip(text), "{") /\ ~PydanticAccepts(text)
       THEN [final |-> CreateFallbackResponse(ExceptText(text), "Parse error"),
             note |-> "parse_error"]
       ELSE IF ~second.valid
       THEN [final |-> CreateFallbackResponse(text, second.err), note |-> "validation_error"]
       ELSE [final |-> AdviceDict(text), note |-> "validated"]

AfterCompleted_NoBreak == "loop"

\* the break that ends the response.completed branch
AfterCompleted == "done"

HandleCompleted ==
    LET fd == FinalData(schema, accumulated_content)
    IN /\ Receive(Ev("response.completed"))
       /\ Yield(<< ResponseComplete(fd.final, response_id_captured, fd.note) >>)
       /\ pc' = AfterCompleted
       /\ UNCHANGED <<accumulated_content, response_id_captured, func_call_name,
                      func_call_args_buffer, calls, upstream_text>>

(* ------------------ error events and unknown events ------------------- *)
\* events that reach the last elif of the chain
FallThroughEvents ==
    { [Ev(type) EXCEPT !.has_error = attrs[1], !.has_message = attrs[2]] :
        type \in ErrorTypes \cup UnknownTypes,
        attrs \in {<<TRUE, FALSE>>, <<FALSE, TRUE>>, <<FALSE, FALSE>>} }

IsErrorEvent_AnyAttr(ev) == ev.type \in ErrorTypes \/ ev.has_error \/ ev.has_message

\* evt_type in ("response.error", "response.failed") or hasattr(event, 'error')
IsErrorEvent(ev) == ev.type \in ErrorTypes \/ ev.has_error

ErrText(ev) ==
    IF ev.has_error THEN "error attribute"
    ELSE IF ev.has_message THEN "message attribute"
    ELSE "Unknown error"

HandleErrorEvent ==
    \E ev \in FallThroughEvents :
        /\ IsErrorEvent(ev)
        /\ Receive(ev)
        /\ Yield(<< [ErrorEvent("API_ERROR") EXCEPT !.note = ErrText(ev)] >>)
        /\ pc' = "done"
        /\ UNCHANGED <<accumulated_content, response_id_captured, func_call_name,
                       func_call_args_buffer, calls, upstream_text>>

HandleUnknownEvent ==
    \E ev \in FallThroughEvents :
        /\ ~IsErrorEvent(ev)
        /\ Receive(ev)
        /\ Yield(<< StatusUpdate("unknown_event") >>)
        /\ UNCHANGED <<pc, accumulated_content, response_id_captured, func_call_name,
                       func_call_args_buffer, calls, upstream_text>>

(* ------------------------ upstream failures --------------------------- *)
Exceptions ==
    {"RateLimitError", "BadRequestError", "Exception"}

\* the except clause that catches exc: BadRequestError and NotFoundError are
\* subclasses of APIError, whose clause comes first
ErrorCode(exc) ==
    CASE exc = "APIConnectionError" -> "CONNECTION_ERROR"
      [] exc = "RateLimitError" -> "RATE_LIMIT_ERROR"
      [] exc = "AuthenticationError" -> "AUTH_ERROR"
      [] exc \in {"APIError", "BadRequestError", "NotFoundError"} -> "API_ERROR"
      [] OTHER -> "UNEXPECTED_ERROR"

\* a retrying client would go back to opening the request
AfterFailure_Retry == "open"

\* every except clause yields and falls off the end of the generator
AfterFailure == "done"

\* responses.create or the async for raises
UpstreamRaises ==
    \E exc \in Exceptions :
        /\ pc \in {"open", "loop"}
        /\ pc' = AfterFailure
        /\ requests' = IF pc = "open" THEN requests + 1 ELSE requests
        /\ raised' = exc
        /\ Yield(<< ErrorEvent(ErrorCode(exc)) >>)
        /\ UNCHANGED <<consumer, store>>
        /\ UNCHANGED offStream
        /\ UNCHANGED <<schema, family, event, event_count, accumulated_content, response_id_captured,
                       func_call_name, func_call_args_buffer, calls, upstream_text>>

\* the async for ends: the transport closed without Completion or Error
UpstreamExhausted ==
    /\ pc = "loop"
    /\ pc' = "done"
    /\ Yield(IF event_count = 0 THEN << ErrorEvent("NO_EVENTS") >> ELSE <<>>)
    /\ UNCHANGED <<requests, raised, consumer, store>>
    /\ UNCHANGED offStream
    /\ UNCHANGED <<schema, family, event, event_count, accumulated_content, response_id_captured,
                   func_call_name, func_call_args_buffer, calls, upstream_text>>

(* ------------------ cancellation of the request task ------------------ *)
\* an except clause that would also intercept the cancellation of the task
Catches_Any(exc) == TRUE

\* "except Exception" catches exc: asyncio.CancelledError and GeneratorExit
\* derive from BaseException, every other exception here from Exception
Catches(exc) == exc \notin {"CancelledError", "GeneratorExit"}

\* the consumer disconnects while the task is suspended between two handlers
\* (in responses.create, in the async for, or at a yield): the server cancels
\* the task, CancelledError is raised at the await inside the try
Cancel ==
    /\ consumer = "connected"
    /\ \/ pc \in {"open", "loop"}
       \/ pc = "done" /\ out # <<>> /\ out[Len(out)].event = "response_complete"
    /\ consumer' = "gone"
    /\ requests' = IF pc = "open" THEN requests + 1 ELSE requests
    /\ IF pc # "done" /\ Catches("CancelledError")
       THEN /\ pc' = "done"
            /\ Yield(<< ErrorEvent(ErrorCode("CancelledError")) >>)
       ELSE /\ pc' = "cancelled"
            /\ out' = out
    /\ UNCHANGED <<schema, family, event, event_count, accumulated_content,
                   response_id_captured, func_call_name, func_call_args_buffer, calls,
                   upstream_text, raised, store>>
    /\ UNCHANGED offStream

\* the argument-complete events whose handler awaits the lookup service
LookupEvents ==
    { Ev("response.function_call_arguments.done") }
    \cup { e \in LegacyDoneEvents : e.has_fc /\ e.has_args /\ LoadArgs(e.args) # "fail" }

\* the consumer disconnects while a handler awaits the lookup: CancelledError
\* is raised in _call_tool, inside its try and inside the handler's try
CancelInLookup ==
    \E ev \in LookupEvents :
        LET legacy == ev.type = "response.function_call.done"
            name == IF legacy THEN LegacyName(ev) ELSE func_call_name
            args == IF legacy THEN LoadArgs(ev.args) ELSE NewStyleArgs(func_call_args_buffer)
            d == Dispatch(name, args, "cancelled", legacy)
        IN /\ consumer = "connected"
           /\ d.asked
           /\ Consume(ev)
           /\ consumer' = "gone"
           /\ calls' = Append(calls, Call(name, args, "cancelled"))
           /\ IF Catches("CancelledError")
              THEN /\ pc' = pc
                   /\ Yield(d.yield)
                   /\ func_call_name' = IF legacy THEN func_call_name ELSE "None"
                   /\ func_call_args_buffer' = IF legacy THEN func_call_args_buffer ELSE <<>>
              ELSE /\ pc' = "cancelled"
                   /\ UNCHANGED <<out, func_call_name, func_call_args_buffer>>
           /\ UNCHANGED <<accumulated_content, response_id_captured, upstream_text>>

(* ------------- main.streaming_response_with_logging ------------------- *)
\* the row log_confidence_entry inserts
LogEntry(final, rid) ==
    LET cs == FieldOrNone(final, "confidence_score").v
    IN [id |-> Len(store) + 1,
        response_id |-> rid,
        confidence_score |-> IF cs = JNull THEN 50 ELSE cs.n,
        outcome |-> "None",
        feedback_timestamp |-> "None"]

\* a column without the unique constraint
UniqueOk_Unchecked(rid) == TRUE

\* response_id is a unique column: a second row with a stored id is refused
UniqueOk(rid) == rid = "None" \/ \A i \in 1..Len(store) : store[i].response_id # rid

\* the wrapper is resumed after the response_complete chunk went out:
\* model_validate raising, and log_response failing, leave the store as it is
LogResponse ==
    /\ pc = "done"
    /\ out # <<>>
    /\ out[Len(out)].event = "response_complete"
    /\ pc' = "logged"
    /\ LET e == out[Len(out)]
       IN store' = IF TypedPropsOk(e.final) /\ UniqueOk(e.rid)
                   THEN Append(store, LogEntry(e.final, e.rid))
                   ELSE store
    /\ UNCHANGED <<schema, family, event, event_count, accumulated_content,
                   response_id_captured, func_call_name, func_call_args_buffer, out, calls,
                   upstream_text, requests, raised, consumer>>
    /\ UNCHANGED offStream

(* --------------------------- specification ---------------------------- *)
Next ==
    \/ Open
    \/ HandleCreated
    \/ HandleWebSearchSearching
    \/ HandleTextDelta
    \/ HandleLoggedOnly
    \/ HandleOutputItemAdded
    \/ HandleWebSearchCompleted
    \/ HandleFunctionCallName
    \/ HandleArgumentsDelta
    \/ HandleArgumentsDone
    \/ HandleLegacyFunctionCall
    \/ HandleLegacyFunctionCallDone
    \/ HandleOutputItemDone
    \/ HandleAnnotationAdded
    \/ HandleCompleted
    \/ HandleErrorEvent
    \/ HandleUnknownEvent
    \/ UpstreamRaises
    \/ UpstreamExhausted
    \/ Cancel
    \/ CancelInLookup
    \/ LogResponse

Spec == Init /\ [][Next]_vars

(* ====================================================================== *)
(*        finalization of an arbitrary accumulated text (SpecFinal)        *)
(* ====================================================================== *)
RECURSIVE FieldSeqs(_)
FieldSeqs(n) ==
    IF n = 0 THEN {<<>>}
    ELSE LET shorter == FieldSeqs(n - 1)
         IN shorter \cup {Append(fs, tok) : fs \in shorter, tok \in FieldTokens}

\* texts the deltas of a stream can add up to
FinalTexts ==
    { <<>>, <<"ws">>, <<"ws", "ws">>, <<"prose">>, <<"ws", "prose", "ws">>,
      <<"longprose", "longprose">>, <<"[]">>, <<"{">>, <<"{", "ma_adv">>,
      <<"prose", "{", "ma_adv", "}">> }
    \cup { <<"{">> \o fs \o <<"}">> : fs \in FieldSeqs(MaxFields) }
    \cup { <<"ws", "{">> \o fs \o <<"}", "ws">> : fs \in FieldSeqs(1) }

\* the state of a stream that received a Created event (with or without an id)
\* and the text as one delta, and now waits for the next event
FinalInit ==
    /\ schema \in SchemaKinds
    /\ family = "status"
    /\ pc = "loop"
    /\ \E id \in ResponseIds \cup {"None"}, text \in FinalTexts :
        LET created == [Ev("response.created") EXCEPT !.id = id]
            delta == [Ev("response.output_text.delta") EXCEPT !.delta = text]
            st == [event |-> "status_update", status |-> "created", delta |-> <<>>,
                   final |-> <<>>, rid |-> id, tool |-> "None", note |-> "None",
                   cause |-> 1]
            td == [st EXCEPT !.event = "text_delta", !.status = "None", !.delta = text,
                             !.rid = "None", !.cause = 2]
        IN /\ response_id_captured = id
           /\ accumulated_content = text
           /\ upstream_text = text
           /\ event = IF text = <<>> THEN created ELSE delta
           /\ event_count = IF text = <<>> THEN 1 ELSE 2
           /\ out = IF text = <<>> THEN <<st>> ELSE <<st, td>>
    /\ func_call_name = "None"
    /\ func_call_args_buffer = <<>>
    /\ calls = <<>>
    /\ requests = 1
    /\ raised = "None"
    /\ consumer = "connected"
    /\ store = <<>>
    /\ sessions = <<>>
    /\ phrases_data = <<>>
    /\ phrases_file = <<>>
    /\ input = <<>>
    /\ ret = <<>>

FinalNext == HandleCompleted

SpecFinal == FinalInit /\ [][FinalNext]_vars

(* ====================================================================== *)
(*                               properties                                *)
(* ====================================================================== *)
Terminal(e) == e.event \in {"response_complete", "error"}

Completes == {i \in 1..Len(out) : out[i].event = "response_complete"}

\* this step handles the upstream event event'
Handled == event_count' = event_count + 1

\* this step yields exactly one status_update
OneStatusUpdate ==
    /\ Len(out') = Len(out) + 1
    /\ SubSeq(out', 1, Len(out)) = out
    /\ out'[Len(out')].event = "status_update"

\* C1: a terminal downstream event (response_complete or error) is always the
\* last event yielded: there is at most one, never both, and nothing follows it.
C1_TerminalIsLast ==
    \A i \in 1..Len(out) : Terminal(out[i]) => i = Len(out)

C1_Witness ==
    /\ pc = "done"
    /\ Len(out) >= 3
    /\ out[Len(out)].event = "response_complete"
    /\ \E i \in 1..Len(out) : out[i].event = "text_delta"

\* C2: a stream that has ended has yielded a terminal event, also when the
\* upstream source was exhausted after some events were relayed.
C2_EndedStreamHasTerminal ==
    pc = "done" => (out # <<>> /\ Terminal(out[Len(out)]))

\* C3: the confidence_score of every response_complete record is absent, null
\* or a number in [0.0, 1.0].
C3_ConfidenceInRange ==
    \A i \in Completes :
        Has(out[i].final, "confidence_score")
            => ScoreInRange(Get(out[i].final, "confidence_score"))

\* C4: the main_advice of every response_complete record is a non-empty string.
C4_MainAdviceNonEmpty ==
    \A i \in Completes :
        /\ Has(out[i].final, "main_advice")
        /\ IsStr(Get(out[i].final, "main_advice"))
        /\ Get(out[i].final, "main_advice").n > 0

RECURSIVE DeltaText(_)
DeltaText(evs) ==
    IF evs = <<>> THEN <<>>
    ELSE (IF Head(evs).event = "text_delta" THEN Head(evs).delta ELSE <<>>)
            \o DeltaText(Tail(evs))

\* C5: downstream events are in upstream arrival order; the TextDelta being
\* handled has been relayed as its own text_delta event before the next
\* upstream event is read; the concatenated text_delta payloads equal the
\* concatenated upstream TextDelta payloads, which is the accumulated buffer.
C5_OrderAndText ==
    /\ \A i, j \in 1..Len(out) : i < j => out[i].cause <= out[j].cause
    /\ event.type = "response.output_text.delta" =>
            {i \in 1..Len(out) : out[i].cause = event_count}
                = {i \in 1..Len(out) : /\ out[i].cause = event_count
                                       /\ out[i].event = "text_delta"
                                       /\ out[i].delta = event.delta}
            /\ Cardinality({i \in 1..Len(out) : out[i].cause = event_count}) = 1
    /\ DeltaText(out) = upstream_text
    /\ accumulated_content = upstream_text

C5_Witness ==
    /\ Cardinality({i \in 1..Len(out) : out[i].event = "text_delta"}) >= 2
    /\ \E i \in 1..Len(out) : out[i].event = "status_update"
    /\ Len(upstream_text) >= 2

\* C6: a lookup the service failed yields exactly one tool_error for that call,
\* no tool_result for it and no terminal error.
C6_FailedCallYieldsToolError ==
    \A c \in 1..Len(calls) :
        calls[c].outcome \in SvcFailures =>
            /\ Cardinality({i \in 1..Len(out) : /\ out[i].cause = calls[c].at
                                                /\ out[i].event = "tool_error"}) = 1
            /\ \A i \in 1..Len(out) :
                  out[i].cause = calls[c].at => out[i].event \notin {"tool_result", "error"}

\* the tool-call completion event handled by this step carries an argument
\* text that json.loads rejects
UnparsableNewStyle ==
    /\ event'.type = "response.function_call_arguments.done"
    /\ func_call_args_buffer # <<>>
    /\ LoadArgs(func_call_args_buffer) = "fail"
UnparsableLegacy ==
    /\ event'.type = "response.function_call.done"
    /\ event'.has_fc /\ event'.has_args
    /\ LoadArgs(event'.args) = "fail"

\* C7: a tool-call completion event of either style whose argument text cannot
\* be parsed does not abort the stream (no error event, the loop goes on), and
\* a registered tool is dispatched with the empty argument object.
C7_UnparsableArgsDoNotAbort ==
    [][ (Handled /\ (UnparsableNewStyle \/ UnparsableLegacy)) =>
            /\ pc' = "loop"
            /\ \A i \in 1..Len(out') : i > Len(out) => out'[i].event # "error"
            /\ LET name == IF UnparsableLegacy THEN LegacyName(event') ELSE func_call_name
               IN name \in ToolNames =>
                    /\ Len(calls') = Len(calls) + 1
                    /\ calls'[Len(calls')].args = "{}" ]_vars

\* C8 (as stated): every event with an unrecognised type tag yields exactly one
\* generic status_update and leaves the stream running, whatever attributes
\* it carries.
C8_UnknownAlwaysForwarded ==
    [][ (Handled /\ event'.type \notin KnownTypes) =>
            /\ OneStatusUpdate
            /\ out'[Len(out')].status = "unknown_event"
            /\ pc' = "loop" ]_vars

\* C8 (amended): an event with an unrecognised type tag and no error attribute
\* yields exactly one generic status_update and leaves the stream running; one
\* that has an error attribute is handled as an Error event: one terminal
\* error event, and the stream stops.
C8_UnknownForwardedUnlessError ==
    [][ (Handled /\ event'.type \notin KnownTypes) =>
            IF event'.has_error
            THEN /\ Len(out') = Len(out) + 1
                 /\ SubSeq(out', 1, Len(out)) = out
                 /\ out'[Len(out')].event = "error"
                 /\ pc' = "done"
            ELSE /\ OneStatusUpdate
                 /\ out'[Len(out')].status = "unknown_event"
                 /\ pc' = "loop" ]_vars

C8_Witness ==
    /\ event.type \in UnknownTypes
    /\ ~event.has_error /\ event.has_message
    /\ pc = "loop"
    /\ out # <<>>
    /\ out[Len(out)].status = "unknown_event"
    /\ out[Len(out)].cause = event_count

StatusTypes ==
    {"response.web_search_call.searching", "response.web_search_call.in_progress",
     "response.web_search_call.completed", "response.output_item.added",
     "response.output_item.done"}

\* the status/progress events the loop translates
Translated(ev) ==
    \/ ev.type \in {"response.web_search_call.searching", "response.web_search_call.completed"}
    \/ ev.type = "response.output_item.added" /\ ev.item \in {"web_search_call", "message"}
    \/ ev.type = "response.output_item.done" /\ ev.item = "message"

\* C9 (as stated): every status/progress event yields exactly one status_update,
\* for every item type.
C9_StatusOneToOne ==
    [][ (Handled /\ event'.type \in StatusTypes) => OneStatusUpdate ]_vars

\* C9 (amended): searching and completed events, output_item.added with item
\* type web_search_call or message and output_item.done with item type message
\* yield exactly one status_update each; web_search_call.in_progress and the
\* item events of any other item type yield nothing.
C9_StatusTranslatedOrDropped ==
    [][ (Handled /\ event'.type \in StatusTypes) =>
            IF Translated(event') THEN OneStatusUpdate ELSE out' = out ]_vars

C9_Witness ==
    /\ event.type = "response.output_item.added"
    /\ event.item = "message"
    /\ out # <<>>
    /\ out[Len(out)].status = "message_start"
    /\ out[Len(out)].cause = event_count

\* the id of the last "created" status before position n that carries an id
RECURSIVE LastCreatedId(_)
LastCreatedId(n) ==
    IF n = 0 THEN "None"
    ELSE IF out[n].event = "status_update" /\ out[n].status = "created" /\ out[n].rid # "None"
         THEN out[n].rid
         ELSE LastCreatedId(n - 1)

\* C10 (as stated): every response_complete carries a non-null response_id.
C10_ResponseIdPresent ==
    \A i \in Completes : out[i].rid # "None"

\* C10 (amended): the response_id of every response_complete, on the validated
\* and on the fallback paths, is the id of the stream's most recent Created
\* event that carried an id, and null when no such event came before Completion.
C10_ResponseIdIsLastCaptured ==
    \A i \in Completes : out[i].rid = LastCreatedId(i - 1)

C10_Witness ==
    \E i \in Completes :
        /\ out[i].rid \in ResponseIds
        /\ out[i].note = "validation_error"

\* C11: an upstream failure, raised by responses.create or between two
\* events, yields exactly one error event, as the last event and with the code
\* of the clause that catches it, and no response_complete; the text_delta
\* events yielded before it stay as they were, in order and unrepeated (their
\* payloads are the accumulated text); nothing else was yielded when the
\* failure came before the first event; the request was opened exactly once.
C11_FailureYieldsOneError ==
    raised # "None" =>
        /\ pc = "done"
        /\ requests = 1
        /\ out # <<>>
        /\ out[Len(out)] = [ErrorEvent(ErrorCode(raised)) EXCEPT !.cause = event_count + 1]
        /\ \A i \in 1..(Len(out) - 1) : ~Terminal(out[i])
        /\ DeltaText(out) = upstream_text
        /\ \A i, j \in 1..Len(out) : i < j => out[i].cause <= out[j].cause
        /\ event_count = 0 => Len(out) = 1

C11_Witness ==
    /\ raised = "RateLimitError"
    /\ event_count >= 2
    /\ Len(out) >= 3
    /\ DeltaText(out) # <<>>

\* C12: when the consumer disconnects, between two handlers or while a
\* handler awaits a lookup, the request task ends there: the disconnecting
\* step yields nothing and writes no log entry, and from then on no upstream
\* event is consumed, no lookup is dispatched, the ToolCall state is never
\* read or changed again, no downstream event is yielded and no confidence
\* log entry is written.
C12_DisconnectEndsTask ==
    [][ /\ consumer' = "gone" => pc' = "cancelled"
        /\ (consumer = "connected" /\ consumer' = "gone") =>
                (out' = out /\ store' = store)
        /\ consumer = "gone" =>
                UNCHANGED <<event, event_count, out, calls, store, func_call_name,
                            func_call_args_buffer, requests, pc>> ]_vars

\* disconnected while the lookup of an open ToolCall was awaited
C12_Witness ==
    /\ consumer = "gone"
    /\ pc = "cancelled"
    /\ func_call_name \in ToolNames
    /\ calls # <<>>
    /\ calls[Len(calls)].outcome = "cancelled"

(* ====================================================================== *)
(*            web_search_discipline.WebSearchDiscipline                    *)
(* ====================================================================== *)
\* A query is a sequence of words as typed; a word stands for a short piece
\* of text, so that "in" (substring) and re.search are decided per word.
MaxWords == 2

Words ==
    {"/nosrch", "/NoSrch", "who won", "2019", "injury", "about", "start",
     "Josh Allen", "QB", "week 15", "hello"}

\* str.lower()
LowerWord(w) ==
    CASE w = "/NoSrch" -> "/nosrch"
      [] w = "Josh Allen" -> "josh allen"
      [] w = "QB" -> "qb"
      [] OTHER -> w

Lower(query) == [i \in 1..Len(query) |-> LowerWord(query[i])]

\* the keywords of the service's lists that occur inside a lower-case word
\* ("out" occurs inside "about")
KeywordsIn(w) ==
    CASE w = "/nosrch" -> {"/nosrch"}
      [] w = "who won" -> {"who won"}
      [] w = "injury" -> {"injury"}
      [] w = "about" -> {"out"}
      [] w = "start" -> {"start"}
      [] OTHER -> {}

\* any(keyword in text for keyword in keywords)
AnyIn(keywords, text) == \E i \in 1..Len(text) : KeywordsIn(text[i]) \cap keywords # {}

bypass_keywords == {"/nosrch", "/nosearch", "/skip-search", "--no-web-search"}
time_sensitive_keywords == {"today", "injury", "out", "news", "trade"}
fantasy_indicators == {"start", "sit", "lineup", "trade", "matchup"}
historical_indicators == {"who won", "mvp in", "biography", "history of", "career stats"}

\* r'\b(19|20)\d{2}\b' and the other year patterns, on the lower-case query
YearPattern(text) == \E i \in 1..Len(text) : text[i] = "2019"

\* the date patterns (r'\b(week \d+|wk \d+)\b' and the others)
DatePattern(text) == \E i \in 1..Len(text) : text[i] \in {"2024-01-15", "week 15"}

\* r'\b[A-Z][a-z]+ [A-Z][a-z]+\b' and the other name patterns, on the query as typed
PlayerPattern(query) == \E i \in 1..Len(query) : query[i] = "Josh Allen"

\* r'\b(QB|RB|WR|TE|K|DST|DEF)\b' and the position names, searched in the
\* lower-case query: the upper-case alternatives cannot match there
PositionPattern(text) ==
    \E i \in 1..Len(text) : text[i] \in {"QB", "RB", "WR", "quarterback", "kicker"}

is_historical_query(query) ==
    AnyIn(historical_indicators, Lower(query)) \/ YearPattern(Lower(query))

is_time_sensitive_query(query) ==
    AnyIn(time_sensitive_keywords, Lower(query)) \/ DatePattern(Lower(query))

has_recently_active_entities(query) ==
    \/ AnyIn(fantasy_indicators, Lower(query))
    \/ PlayerPattern(query)
    \/ PositionPattern(Lower(query))

\* the overrides a request can carry: None, the empty text, a bypass command,
\* any other text
Overrides == {"None", "", "/nosrch", "force"}

\* Python truth value of user_override
OverrideTruthy(o) == o \notin {"None", ""}

Decision(decision, reasoning) == [decision |-> decision, reasoning |-> reasoning]

\* a chain that evaluates the core rule before the historical check
should_search_CoreFirst(user_query, user_override) ==
    IF OverrideTruthy(user_override) \/ AnyIn(bypass_keywords, Lower(user_query))
    THEN Decision("BYPASS", "explicitly disabled")
    ELSE IF is_time_sensitive_query(user_query)
    THEN Decision("MANDATORY", "time-sensitive")
    ELSE IF has_recently_active_entities(user_query)
    THEN Decision("MANDATORY", "active entities")
    ELSE Decision("SKIP", "historical/theoretical")

should_search(user_query, user_override) ==
    IF OverrideTruthy(user_override) \/ AnyIn(bypass_keywords, Lower(user_query))
    THEN Decision("BYPASS", "explicitly disabled")
    ELSE IF is_historical_query(user_query)
    THEN Decision("SKIP", "historical/theoretical")
    ELSE IF is_time_sensitive_query(user_query)
    THEN Decision("MANDATORY", "time-sensitive")
    ELSE IF has_recently_active_entities(user_query)
    THEN Decision("MANDATORY", "active entities")
    ELSE Decision("SKIP", "historical/theoretical")

\* no stream is running and nothing is stored
Idle ==
    /\ family = "status"
    /\ pc = "open"
    /\ event = NoEvent
    /\ event_count = 0
    /\ accumulated_content = <<>>
    /\ response_id_captured = "None"
    /\ func_call_name = "None"
    /\ func_call_args_buffer = <<>>
    /\ out = <<>>
    /\ calls = <<>>
    /\ upstream_text = <<>>
    /\ requests = 0
    /\ raised = "None"
    /\ consumer = "connected"

RECURSIVE Queries(_)
Queries(n) ==
    IF n = 0 THEN { <<>> }
    ELSE Queries(n - 1) \cup { Append(q, w) : q \in Queries(n - 1), w \in Words }

SearchInit ==
    /\ Idle
    /\ schema = "standalone"
    /\ store = <<>>
    /\ sessions = <<>>
    /\ phrases_data = <<>>
    /\ phrases_file = <<>>
    /\ input \in [user_query : Queries(MaxWords), user_override : Overrides]
    /\ ret = <<>>

ShouldSearch ==
    /\ ret = <<>>
    /\ ret' = should_search(input.user_query, input.user_override)
    /\ UNCHANGED <<streamVars, tunerVars, store, sessions, input>>

SearchNext == ShouldSearch

SpecSearch == SearchInit /\ [][SearchNext]_vars

\* C13: should_search is a fixed priority chain: BYPASS whenever an override
\* is supplied (a non-empty override text) or the query contains a bypass
\* token, whatever else matches; otherwise SKIP whenever the query matches a
\* historical pattern, even if it is time-sensitive or mentions active
\* entities; otherwise MANDATORY exactly when the time-sensitivity or the
\* active-entity predicate holds, citing the time-sensitive reason when both
\* hold; otherwise SKIP. The empty query yields SKIP.
C13_PriorityChain ==
    ret # <<>> =>
        LET q == input.user_query
            bypass == OverrideTruthy(input.user_override)
                        \/ AnyIn(bypass_keywords, Lower(q))
            hist == is_historical_query(q)
            ts == is_time_sensitive_query(q)
            act == has_recently_active_entities(q)
        IN /\ ret.decision \in {"BYPASS", "SKIP", "MANDATORY"}
           /\ bypass => ret.decision = "BYPASS"
           /\ (~bypass /\ hist) => ret.decision = "SKIP"
           /\ (~bypass /\ ~hist) => (ret.decision = "MANDATORY" <=> (ts \/ act))
           /\ (~bypass /\ ~hist /\ ts) => ret.reasoning = "time-sensitive"
           /\ (~bypass /\ ~hist /\ ~ts /\ act) => ret.reasoning = "active entities"
           /\ ret.decision = "BYPASS" => bypass
           /\ (q = <<>> /\ ~bypass) => ret.decision = "SKIP"

\* a historical query that is also time-sensitive and names a player: SKIP
C13_Witness ==
    /\ ret # <<>>
    /\ input.user_override = "None"
    /\ input.user_query = <<"2019", "injury">>
    /\ ret.decision = "SKIP"

(* ====================================================================== *)
(*        SchemaValidator called on an arbitrary text (SpecValidator)      *)
(* ====================================================================== *)
\* error messages handed to create_fallback_response
ErrorMessages == {"Schema validation failed", "Invalid JSON format"}

ValidatorInit ==
    /\ Idle
    /\ schema \in SchemaKinds
    /\ store = <<>>
    /\ sessions = <<>>
    /\ phrases_data = <<>>
    /\ phrases_file = <<>>
    /\ input \in [text : FinalTexts]
    /\ ret = <<>>

\* schema_validator.validate_streaming_chunk(text, is_complete)
CallValidateStreamingChunk ==
    \E is_complete \in BOOLEAN :
        /\ ret = <<>>
        /\ ret' = [op |-> "validate_streaming_chunk", is_complete |-> is_complete,
                   result |-> ValidateStreamingChunk(schema, input.text, is_complete)]
        /\ UNCHANGED <<streamVars, tunerVars, store, sessions, input>>

\* schema_validator.validate_json(json_data), json_data the text or, when the
\* text is an object, the dict it parses to
CallValidateJson ==
    \E as_dict \in BOOLEAN :
        LET p == ParseJSON(input.text)
        IN /\ ret = <<>>
           /\ as_dict => p.kind = "obj"
           /\ ret' = [op |-> "validate_json", as_dict |-> as_dict,
                      result |-> IF as_dict THEN ValidateDict(schema, p.obj)
                                 ELSE ValidateJson(schema, input.text)]
           /\ UNCHANGED <<streamVars, tunerVars, store, sessions, input>>

\* schema_validator.create_fallback_response(text, error_msg)
CallCreateFallbackResponse ==
    \E err \in ErrorMessages :
        /\ ret = <<>>
        /\ ret' = [op |-> "create_fallback_response", error_msg |-> err,
                   result |-> CreateFallbackResponse(input.text, err)]
        /\ UNCHANGED <<streamVars, tunerVars, store, sessions, input>>

ValidatorNext ==
    \/ CallValidateStreamingChunk
    \/ CallValidateJson
    \/ CallCreateFallbackResponse

SpecValidator == ValidatorInit /\ [][ValidatorNext]_vars

\* C14: while the stream is in progress validation never reports an error:
\* validate_streaming_chunk with is_complete=False returns valid with no
\* message for every text (incomplete JSON, schema-violating JSON, non-JSON,
\* empty); a reported failure comes only from a call with is_complete=True.
C14_InProgressNeverInvalid ==
    (ret # <<>> /\ ret.op = "validate_streaming_chunk") =>
        /\ ~ret.is_complete => ret.result = Valid
        /\ ~ret.result.valid => (ret.is_complete /\ ret.result.err # "None")

\* a complete object that violates the schema, validated in progress
C14_Witness ==
    /\ ret # <<>>
    /\ ret.op = "validate_streaming_chunk"
    /\ ~ret.is_complete
    /\ ParseJSON(input.text).kind = "obj"
    /\ ~ValidateJson(schema, input.text).valid
    /\ ret.result.valid

\* C15: validate_json, and validate_streaming_chunk with is_complete=True,
\* report invalid with an error message for every record that lacks the
\* main_advice field, whatever other fields it has.
C15_MissingMainAdviceInvalid ==
    LET p == ParseJSON(input.text)
    IN (/\ ret # <<>>
        /\ ret.op \in {"validate_json", "validate_streaming_chunk"}
        /\ ret.op = "validate_streaming_chunk" => ret.is_complete
        /\ p.kind = "obj"
        /\ ~Has(p.obj, "main_advice"))
            => (~ret.result.valid /\ ret.result.err # "None")

\* C16: create_fallback_response is total and returns, for every original
\* text and error message, a record that validate_json accepts.
C16_FallbackIsSchemaValid ==
    (ret # <<>> /\ ret.op = "create_fallback_response") =>
        ValidateDict(schema, ret.result).valid

\* the record d has only declared fields and satisfies the StructuredAdvice
\* schema as it stands, without any transformation
FullyValid(d) ==
    /\ \A i \in 1..Len(d) : d[i].k \in SchemaProps
    /\ TypedPropsOk(d)
    /\ Get(d, "main_advice").n > 0

\* the finished stream's response_complete event
Completed == out # <<>> /\ out[Len(out)].event = "response_complete"

\* C17: finalizing a record that already fully satisfies the StructuredAdvice
\* schema is a round trip: the record of response_complete has the declared
\* fields only, each equal to the input's (an absent optional field reads as
\* null), it carries no validation or parse error, and finalizing its
\* serialization again yields the same record.
C17_ValidRecordRoundTrip ==
    LET p == ParseJSON(accumulated_content)
        e == out[Len(out)]
    IN (Completed /\ p.kind = "obj" /\ FullyValid(p.obj)) =>
        /\ e.note = "validated"
        /\ \A i \in 1..Len(e.final) : e.final[i].k \in SchemaProps
        /\ \A key \in SchemaProps : FieldOrNone(e.final, key) = FieldOrNone(p.obj, key)
        /\ FinalData(schema, Dumps(e.final)) = [final |-> e.final, note |-> "validated"]

C17_Witness ==
    /\ Completed
    /\ accumulated_content = <<"{", "ma_adv", "cs_80", "}">>
    /\ out[Len(out)].note = "validated"
    /\ Get(out[Len(out)].final, "confidence_score") = JNum(80)

\* C18: whenever the terminal validation fails (unparseable text, or a parsed
\* record that still violates the schema) the repaired record has main_advice
\* equal to the original raw text (surrounding white space aside) at any
\* length, confidence_score equal to the fixed low default 0.1, and a
\* reasoning text that carries the validation failure.
C18_RepairKeepsRawText ==
    LET e == out[Len(out)]
        reasoning == FieldOrNone(e.final, "reasoning").v
    IN (Completed /\ e.note \in {"validation_error", "parse_error"}) =>
        /\ FieldOrNone(e.final, "main_advice").v = StrOf(Strip(accumulated_content))
        /\ FieldOrNone(e.final, "confidence_score").v = JNum(10)
        /\ IsStr(reasoning)
        /\ \E i \in 1..Len(reasoning.s) :
                reasoning.s[i] \in {"Schema validation failed", "Invalid JSON format",
                                    "Validation error", "Parse error"}

(* ====================================================================== *)
(*     ConfidenceScoringService.update_outcome on the log store (SpecLog)  *)
(* ====================================================================== *)
MaxCalls == 2

\* values of datetime.utcnow() at the commits
Times == {1, 2}

\* the outcome a feedback reports, and what update_outcome returns
Outcomes == {"True", "False"}

\* ids a feedback can name: two that streams were given, one never logged
FeedbackIds == ResponseIds \cup {"resp_9"}

\* a row as log_confidence_entry inserted it: no outcome, no feedback yet
Row(n, rid) ==
    [id |-> n, response_id |-> rid, confidence_score |-> 50, outcome |-> "None",
     feedback_timestamp |-> "None"]

\* the tables that logging can have produced: ids unique unless null
Stores ==
    { <<>> }
    \cup { << Row(1, r) >> : r \in {"resp_1", "None"} }
    \cup { << Row(1, r[1]), Row(2, r[2]) >> :
            r \in { <<"resp_1", "resp_2">>, <<"resp_2", "resp_1">>, <<"resp_1", "None">>,
                    <<"None", "None">> } }

LogInit ==
    /\ Idle
    /\ schema = "standalone"
    /\ store \in Stores
    /\ sessions = <<>>
    /\ phrases_data = <<>>
    /\ phrases_file = <<>>
    /\ input = <<>>
    /\ ret = <<>>

\* a lookup that takes the first row of the table whatever its id
FindEntry_First(st, rid) == IF st = <<>> THEN 0 ELSE 1

\* db.query(ConfidenceLog).filter(ConfidenceLog.response_id == response_id).first():
\* the position of the row, 0 for None
FindEntry(st, rid) ==
    IF \E i \in 1..Len(st) : st[i].response_id = rid
    THEN CHOOSE i \in 1..Len(st) :
            /\ st[i].response_id = rid
            /\ \A j \in 1..(i - 1) : st[j].response_id # rid
    ELSE 0

\* the HTTP status submit_feedback answers with, given what
\* update_response_outcome returned: the HTTPException(404) is raised inside
\* the try whose "except Exception" re-raises everything as HTTPException(500)
SubmitFeedbackStatus(success) ==
    IF success = "True" THEN 200
    ELSE IF Catches("HTTPException") THEN 500
    ELSE 404

\* update_outcome(response_id, outcome) is called: db = self.get_db_session()
BeginUpdate ==
    \E rid \in FeedbackIds, outcome \in Outcomes :
        /\ Len(sessions) < MaxCalls
        /\ sessions' = Append(sessions, [response_id |-> rid, outcome |-> outcome,
                                         at |-> "query", entry |-> 0, result |-> "None",
                                         status |-> 0])
        /\ UNCHANGED <<streamVars, tunerVars, store, input, ret>>

\* the SELECT; without a row the call returns False and closes the session
QueryEntry ==
    \E s \in 1..Len(sessions) :
        LET found == FindEntry(store, sessions[s].response_id)
        IN /\ sessions[s].at = "query"
           /\ sessions' = [sessions EXCEPT ![s] =
                            IF found = 0
                            THEN [@ EXCEPT !.at = "closed", !.result = "False",
                                           !.status = SubmitFeedbackStatus("False")]
                            ELSE [@ EXCEPT !.at = "loaded", !.entry = found]]
           /\ UNCHANGED <<streamVars, tunerVars, store, input, ret>>

\* entry.outcome = outcome; entry.feedback_timestamp = utcnow(); db.commit():
\* the UPDATE of the loaded row; the call returns True
CommitOutcome ==
    \E s \in 1..Len(sessions), now \in Times :
        /\ sessions[s].at = "loaded"
        /\ store' = [store EXCEPT ![sessions[s].entry] =
                        [@ EXCEPT !.outcome = sessions[s].outcome,
                                  !.feedback_timestamp = now]]
        /\ sessions' = [sessions EXCEPT ![s] =
                            [@ EXCEPT !.at = "closed", !.result = "True",
                                      !.status = SubmitFeedbackStatus("True")]]
        /\ UNCHANGED <<streamVars, tunerVars, input, ret>>

LogNext ==
    \/ BeginUpdate
    \/ QueryEntry
    \/ CommitOutcome

SpecLog == LogInit /\ [][LogNext]_vars

\* the call of session s has returned in this step
Returns(s) == sessions[s].at # "closed" /\ sessions'[s].at = "closed"

\* C19: update_outcome with a continuation id that no log entry has returns
\* False and changes no entry: the store is the same before and after the
\* call, and no later step of that call writes.
C19_UnknownIdChangesNothing ==
    [][ \A s \in 1..Len(sessions) :
            LET unknown == \A i \in 1..Len(store) :
                                store[i].response_id # sessions[s].response_id
            IN /\ (sessions[s].at = "query" /\ unknown /\ sessions'[s] # sessions[s]) =>
                    (Returns(s) /\ sessions'[s].result = "False" /\ store' = store)
               /\ (sessions[s].at = "closed" /\ sessions[s].result = "False") =>
                    sessions'[s] = sessions[s] ]_vars

\* a feedback for an id never logged was answered False, the store holds rows
C19_Witness ==
    /\ store # <<>>
    /\ \E s \in 1..Len(sessions) :
        /\ sessions[s].response_id = "resp_9"
        /\ sessions[s].at = "closed"
        /\ sessions[s].result = "False"
    /\ \A i \in 1..Len(store) : store[i].outcome = "None"

\* C20: for every log entry, over any sequence or interleaving of
\* update_outcome calls on its id, the outcome is set at most once: an outcome
\* or feedback timestamp that is set is never overwritten.
C20_OutcomeSetAtMostOnce ==
    [][ \A i \in 1..Len(store) :
            store[i].outcome # "None" =>
                /\ store'[i].outcome = store[i].outcome
                /\ store'[i].feedback_timestamp = store[i].feedback_timestamp ]_vars

\* C21: the feedback endpoint answers a feedback whose continuation id is
\* unknown with 404, never with a success or a server error, and answers
\* success exactly when an entry with that id existed and was updated.
C21_UnknownIdIsNotFound ==
    \A s \in 1..Len(sessions) :
        sessions[s].at = "closed" =>
            /\ sessions[s].result = "False" => sessions[s].status = 404
            /\ sessions[s].status = 200 <=> sessions[s].result = "True"


(* ====================================================================== *)
(*        confidence_scoring: calculate_brier_score and the bands          *)
(* ====================================================================== *)
\* rows of confidence_logs in a table under analysis
MaxRows == 2

\* confidence scores in hundredths: inside a band, on a band's lower edge,
\* in the last band, and the upper end of the scale
ConfidenceValues == {30, 50, 95, 100}

\* the outcome column: null until a feedback arrives
OutcomeColumn == {"None", "True", "False"}

\* the day an entry was logged; the analysis runs on day 10
Timestamps == {2, 3}

\* a fraction num/den, the exact value of a float quotient
Ratio(n, d) == [num |-> n, den |-> d]

ConfidenceLog(n, c, o, t) ==
    [id |-> n, response_id |-> "None", confidence_score |-> c, outcome |-> o,
     timestamp |-> t, feedback_timestamp |-> "None"]

RECURSIVE Tables(_)
Tables(n) ==
    IF n = 0 THEN { <<>> }
    ELSE Tables(n - 1)
         \cup { Append(st, ConfidenceLog(Len(st) + 1, c, o, t)) :
                  st \in { x \in Tables(n - 1) : Len(x) = n - 1 },
                  c \in ConfidenceValues, o \in OutcomeColumn, t \in Timestamps }

RECURSIVE Sum(_)
Sum(seq) == IF seq = <<>> THEN 0 ELSE Head(seq) + Sum(Tail(seq))

\* a filter that forgets the window
InQuery_AnyTime(e, cutoff_date) == e.outcome # "None"

\* filter(ConfidenceLog.outcome.isnot(None), ConfidenceLog.timestamp >= cutoff_date)
InQuery(e, cutoff_date) == e.outcome # "None" /\ e.timestamp >= cutoff_date

QueryEntries(st, days_back, now) ==
    SelectSeq(st, LAMBDA e : InQuery(e, now - days_back))

\* 1.0 if entry.outcome else 0.0, in hundredths
ActualOutcome(e) == IF e.outcome = "True" THEN 100 ELSE 0

SquaredError(e) == (e.confidence_score - ActualOutcome(e)) * (e.confidence_score - ActualOutcome(e))

Correct(entries) == Len(SelectSeq(entries, LAMBDA e : e.outcome = "True"))

\* squared errors are in ten-thousandths, the score is their sum over the count
calculate_brier_score(st, days_back, now) ==
    LET entries == QueryEntries(st, days_back, now)
        total_score == Sum([i \in 1..Len(entries) |-> SquaredError(entries[i])])
    IN IF entries = <<>>
       THEN [op |-> "calculate_brier_score", brier_score |-> "None",
             entries_count |-> 0, period_days |-> days_back]
       ELSE [op |-> "calculate_brier_score",
             brier_score |-> Ratio(total_score, Len(entries)),
             entries_count |-> Len(entries),
             correct_predictions |-> Correct(entries),
             period_days |-> days_back,
             needs_calibration |-> total_score > 2500 * Len(entries)]

\* bands = [(0.0, 0.5, "low"), (0.5, 0.7, "medium"), (0.7, 0.9, "high"), (0.9, 1.0, "very_high")]
BandNames == {"low", "medium", "high", "very_high"}

BandMin == [low |-> 0, medium |-> 50, high |-> 70, very_high |-> 90]

BandMax == [low |-> 50, medium |-> 70, high |-> 90, very_high |-> 100]

\* min_conf <= entry.confidence_score < max_conf
InBand(e, b) == BandMin[b] <= e.confidence_score /\ e.confidence_score < BandMax[b]

BandStats(entries, b) ==
    LET band_entries == SelectSeq(entries, LAMBDA e : InBand(e, b))
    IN IF band_entries # <<>>
       THEN [count |-> Len(band_entries),
             accuracy |-> Ratio(Correct(band_entries), Len(band_entries))]
       ELSE [count |-> 0, accuracy |-> "None"]

get_confidence_distribution(st, days_back, now) ==
    LET entries == QueryEntries(st, days_back, now)
    IN IF entries = <<>>
       THEN [op |-> "get_confidence_distribution", has_distribution |-> FALSE]
       ELSE [op |-> "get_confidence_distribution", has_distribution |-> TRUE,
             distribution |-> [b \in BandNames |-> BandStats(entries, b)],
             total_entries |-> Len(entries),
             period_days |-> days_back]

StatsInit ==
    /\ Idle
    /\ schema = "standalone"
    /\ store \in Tables(MaxRows)
    /\ sessions = <<>>
    /\ phrases_data = <<>>
    /\ phrases_file = <<>>
    /\ input \in [days_back : {7, 8}, now : {10}]
    /\ ret = <<>>

CallBrierScore ==
    /\ ret' = calculate_brier_score(store, input.days_back, input.now)
    /\ UNCHANGED <<streamVars, tunerVars, store, sessions, input>>

CallDistribution ==
    /\ ret' = get_confidence_distribution(store, input.days_back, input.now)
    /\ UNCHANGED <<streamVars, tunerVars, store, sessions, input>>

StatsNext ==
    \/ CallBrierScore
    \/ CallDistribution

SpecStats == StatsInit /\ [][StatsNext]_vars

\* the rows that have an outcome and were logged inside the trailing window
Known == { i \in 1..Len(store) :
             store[i].outcome \in {"True", "False"}
             /\ store[i].timestamp >= input.now - input.days_back }

RECURSIVE SumOfSquares(_)
SumOfSquares(S) ==
    IF S = {} THEN 0
    ELSE LET i == CHOOSE x \in S : TRUE
             o == IF store[i].outcome = "True" THEN 100 ELSE 0
         IN (store[i].confidence_score - o) * (store[i].confidence_score - o)
            + SumOfSquares(S \ {i})

\* C22: calculate_brier_score returns the mean of (confidence - outcome)^2 over
\* exactly the rows with a known outcome and a timestamp inside the window
\* (outcome 1 for true, 0 for false); rows without an outcome or outside the
\* window do not contribute, and with no such row it returns a null score
\* with count 0.
C22_BrierIsMeanOverKnown ==
    (ret # <<>> /\ ret.op = "calculate_brier_score") =>
        /\ ret.entries_count = Cardinality(Known)
        /\ (Known = {}) => ret.brier_score = "None"
        /\ (Known # {}) =>
              /\ ret.brier_score.den = Cardinality(Known)
              /\ ret.brier_score.num = SumOfSquares(Known)

\* a score was computed over one row while another row, too old or without an
\* outcome, was left out
C22_Witness ==
    /\ ret # <<>> /\ ret.op = "calculate_brier_score"
    /\ Cardinality(Known) = 1
    /\ Len(store) = 2
    /\ \E i \in 1..Len(store) : store[i].outcome # "None" /\ i \notin Known
    /\ ret.brier_score.num = 4900

\* C27: every row with a known outcome and a confidence in [0.0, 1.0], 1.0
\* included, is counted in exactly one band of get_confidence_distribution, so
\* the band counts sum to total_entries.
C27_BandsPartition ==
    (ret # <<>> /\ ret.op = "get_confidence_distribution" /\ ret.has_distribution) =>
        ret.distribution["low"].count + ret.distribution["medium"].count
          + ret.distribution["high"].count + ret.distribution["very_high"].count
        = ret.total_entries


(* ====================================================================== *)
(*                        confidence_phrase_tuner                          *)
(* ====================================================================== *)
\* history records one tuner can hold before the analysis stops
MaxHistory == 1

\* the order in which the distribution dict is iterated
BandOrder == <<"low", "medium", "high", "very_high">>

_map_distribution_to_phrase_band ==
    [very_high |-> "0.9-1.0", high |-> "0.7-0.9", medium |-> "0.5-0.7", low |-> "0.3-0.5"]

PhraseBand(phrases, target) ==
    [phrases |-> phrases, last_calibrated |-> 1, calibration_target |-> target]

\* confidence_bands of a phrases file: none (the default structure), two bands
\* with one phrase each, one band without phrases
BandTables ==
    { <<>>,
      [k \in {"0.3-0.5", "0.9-1.0"} |->
          IF k = "0.3-0.5" THEN PhraseBand(<<"I think">>, 40)
          ELSE PhraseBand(<<"I'm very confident">>, 95)],
      [k \in {"0.9-1.0"} |-> PhraseBand(<<>>, 95)] }

\* auto_tune_settings; threshold in hundredths
Settings ==
    [enabled : BOOLEAN, calibration_threshold : {10, 40}, minimum_samples : {1, 2},
     backup_on_update : {TRUE}]

PhrasesData ==
    { [confidence_bands |-> b, auto_tune_settings |-> s, calibration_history |-> <<>>] :
        b \in BandTables, s \in Settings }

\* phrase_band.get("calibration_target", 0.5)
CalibrationTarget(pd, b) ==
    LET phrase_band_key == _map_distribution_to_phrase_band[b]
    IN IF phrase_band_key \in DOMAIN pd.confidence_bands
       THEN pd.confidence_bands[phrase_band_key].calibration_target
       ELSE 50

Abs(x) == IF x < 0 THEN 0 - x ELSE x

\* abs(actual_accuracy - calibration_target) in hundredths, as a fraction
CalibrationError(stats, target) ==
    Ratio(Abs(100 * stats.accuracy.num - target * stats.count), stats.count)

\* a test that also flags a band whose error equals the threshold
NeedsAdjustment_AtThreshold(stats, target, settings) ==
    /\ CalibrationError(stats, target).num >= settings.calibration_threshold * stats.count
    /\ stats.count >= settings.minimum_samples

\* calibration_error > calibration_threshold and stats["count"] >= minimum_samples
NeedsAdjustment(stats, target, settings) ==
    /\ CalibrationError(stats, target).num > settings.calibration_threshold * stats.count
    /\ stats.count >= settings.minimum_samples

Direction(stats, target) ==
    IF 100 * stats.accuracy.num < target * stats.count THEN "tighten" ELSE "loosen"

\* the bands the loop does not skip, in iteration order
AnalysedBands(dist) ==
    SelectSeq(BandOrder, LAMBDA b : dist.distribution[b].count # 0)

BandAdjustment(pd, dist, b) ==
    LET stats == dist.distribution[b]
        target == CalibrationTarget(pd, b)
    IN [band |-> b, phrase_band |-> _map_distribution_to_phrase_band[b],
        error |-> CalibrationError(stats, target),
        direction |-> Direction(stats, target), samples |-> stats.count]

analyze_calibration_drift(pd, st, days_back, now) ==
    LET dist == get_confidence_distribution(st, days_back, now)
    IN IF ~dist.has_distribution
       THEN [op |-> "analyze_calibration_drift", raised |-> "None",
             message |-> "No calibration data available",
             bands_needing_adjustment |-> <<>>]
       ELSE LET analysed == AnalysedBands(dist)
                flagged == SelectSeq(analysed, LAMBDA b :
                               NeedsAdjustment(dist.distribution[b],
                                               CalibrationTarget(pd, b),
                                               pd.auto_tune_settings))
            IN IF analysed = <<>>
               \* calibration_threshold is bound inside the loop only
               THEN [op |-> "analyze_calibration_drift", raised |-> "UnboundLocalError",
                     bands_needing_adjustment |-> <<>>]
               ELSE [op |-> "analyze_calibration_drift", raised |-> "None",
                     period_days |-> days_back,
                     bands_needing_adjustment |->
                         [i \in 1..Len(flagged) |-> BandAdjustment(pd, dist, flagged[i])],
                     total_bands_analyzed |-> Len(analysed),
                     calibration_threshold |-> pd.auto_tune_settings.calibration_threshold]

\* the first entry of the adjustments dict that occurs in the phrase
AdjustPhrase(phrase, direction) ==
    IF direction = "tighten"
    THEN CASE phrase = "I'm very confident" -> "I believe"
           [] phrase = "I'm confident" -> "I think"
           [] OTHER -> phrase
    ELSE CASE phrase = "I think" -> "I'm confident"
           [] phrase = "I believe" -> "I'm confident"
           [] OTHER -> phrase

_generate_adjusted_phrases(pd, band_key, direction) ==
    LET current_phrases == pd.confidence_bands[band_key].phrases
    IN [i \in 1..Len(current_phrases) |-> AdjustPhrase(current_phrases[i], direction)]

\* a tuner that writes in both modes
Applies_Always(dry_run) == TRUE

\* if not dry_run
Applies(dry_run) == ~dry_run

\* the loop over bands_needing_adjustment: the tuner's data and the actions so far
RECURSIVE AdjustBands(_, _, _, _, _)
AdjustBands(pd, adjs, actions, dry_run, now) ==
    IF adjs = <<>> THEN [data |-> pd, actions_taken |-> actions]
    ELSE LET a == Head(adjs)
             band_key == a.phrase_band
         IN IF band_key \notin DOMAIN pd.confidence_bands
            THEN AdjustBands(pd, Tail(adjs), actions, dry_run, now)
            ELSE LET updated_phrases == _generate_adjusted_phrases(pd, band_key, a.direction)
                     pd2 == IF updated_phrases # <<>> /\ Applies(dry_run)
                            THEN [pd EXCEPT !.confidence_bands[band_key].phrases = updated_phrases,
                                            !.confidence_bands[band_key].last_calibrated = now]
                            ELSE pd
                     \* old_phrases is read after the assignment above
                     act == [band |-> band_key, direction |-> a.direction,
                             calibration_error |-> a.error,
                             old_phrases |-> pd2.confidence_bands[band_key].phrases,
                             new_phrases |-> updated_phrases,
                             applied |-> ~dry_run]
                 IN IF updated_phrases # <<>>
                    THEN AdjustBands(pd2, Tail(adjs), Append(actions, act), dry_run, now)
                    ELSE AdjustBands(pd2, Tail(adjs), actions, dry_run, now)

\* what auto_tune_phrases returns, the data it leaves in memory, and whether
\* it wrote the file; saved tells whether _save_phrases succeeds
auto_tune_phrases(pd, st, days_back, now, dry_run, saved) ==
    LET analysis == analyze_calibration_drift(pd, st, days_back, now)
        done == AdjustBands(pd, analysis.bands_needing_adjustment, <<>>, dry_run, now)
        calibration_record ==
            [timestamp |-> now, period_analyzed |-> days_back,
             bands_adjusted |-> Len(done.actions_taken),
             actions |-> done.actions_taken, dry_run |-> dry_run]
        recorded == [done.data EXCEPT !.calibration_history = Append(@, calibration_record)]
    IN IF ~pd.auto_tune_settings.enabled
       THEN [ret |-> [op |-> "auto_tune_phrases", raised |-> "None", status |-> "disabled"],
             data |-> pd, written |-> FALSE]
       ELSE IF analysis.raised # "None"
       THEN [ret |-> [op |-> "auto_tune_phrases", raised |-> analysis.raised,
                      status |-> "None"],
             data |-> pd, written |-> FALSE]
       ELSE IF analysis.bands_needing_adjustment = <<>>
       THEN [ret |-> [op |-> "auto_tune_phrases", raised |-> "None",
                      status |-> "no_action_needed"],
             data |-> pd, written |-> FALSE]
       ELSE IF Applies(dry_run) /\ done.actions_taken # <<>>
       THEN IF saved
            THEN [ret |-> [op |-> "auto_tune_phrases", raised |-> "None",
                           status |-> "completed", actions_taken |-> done.actions_taken],
                  data |-> recorded, written |-> TRUE]
            ELSE [ret |-> [op |-> "auto_tune_phrases", raised |-> "None",
                           status |-> "error"],
                  data |-> recorded, written |-> FALSE]
       ELSE [ret |-> [op |-> "auto_tune_phrases", raised |-> "None",
                      status |-> "completed", actions_taken |-> done.actions_taken],
             data |-> done.data, written |-> FALSE]

manual_phrase_update(pd, band_key, new_phrases, now, saved) ==
    IF band_key \notin DOMAIN pd.confidence_bands
    THEN [ret |-> [op |-> "manual_phrase_update", raised |-> "None", status |-> "False"],
          data |-> pd, written |-> FALSE]
    ELSE LET old_phrases == pd.confidence_bands[band_key].phrases
             manual_record ==
                 [timestamp |-> now, type |-> "manual_update", band |-> band_key,
                  old_phrases |-> old_phrases, new_phrases |-> new_phrases]
             updated ==
                 [pd EXCEPT !.confidence_bands[band_key].phrases = new_phrases,
                            !.confidence_bands[band_key].last_calibrated = now,
                            !.calibration_history = Append(@, manual_record)]
         IN [ret |-> [op |-> "manual_phrase_update", raised |-> "None",
                      status |-> IF saved THEN "True" ELSE "False"],
             data |-> updated, written |-> saved]

\* the tables the tuner is run on: as many rows as the largest minimum_samples,
\* logged on the last day of a window of seven days, none on the edge between
\* the low and the medium band
TunerTables ==
    { st \in Tables(2) :
        \A i \in 1..Len(st) : st[i].timestamp = 3 /\ st[i].confidence_score # 50 }

NoCall == [op |-> "None", days_back |-> 7, now |-> 10, dry_run |-> FALSE,
           band_key |-> "None", new_phrases |-> <<>>]

TunerInit ==
    /\ Idle
    /\ schema = "standalone"
    /\ store \in TunerTables
    /\ sessions = <<>>
    /\ phrases_data \in PhrasesData
    /\ phrases_file = phrases_data
    /\ input = NoCall
    /\ ret = <<>>

CallAnalyze(days_back) ==
    /\ input' = [input EXCEPT !.op = "analyze_calibration_drift", !.days_back = days_back]
    /\ ret' = analyze_calibration_drift(phrases_data, store, days_back, input.now)
    /\ UNCHANGED <<streamVars, tunerVars, store, sessions>>

CallAutoTune(days_back, dry_run, saved) ==
    LET r == auto_tune_phrases(phrases_data, store, days_back, input.now, dry_run, saved)
    IN /\ Len(phrases_data.calibration_history) < MaxHistory
       /\ input' = [input EXCEPT !.op = "auto_tune_phrases", !.days_back = days_back,
                                 !.dry_run = dry_run]
       /\ ret' = r.ret
       /\ phrases_data' = r.data
       /\ phrases_file' = IF r.written THEN r.data ELSE phrases_file
       /\ UNCHANGED <<streamVars, store, sessions>>

CallManualUpdate(band_key, new_phrases, saved) ==
    LET r == manual_phrase_update(phrases_data, band_key, new_phrases, input.now, saved)
    IN /\ Len(phrases_data.calibration_history) < MaxHistory
       /\ input' = [input EXCEPT !.op = "manual_phrase_update", !.band_key = band_key,
                                 !.new_phrases = new_phrases]
       /\ ret' = r.ret
       /\ phrases_data' = r.data
       /\ phrases_file' = IF r.written THEN r.data ELSE phrases_file
       /\ UNCHANGED <<streamVars, store, sessions>>

TunerNext ==
    \/ \E days_back \in {6, 7} : CallAnalyze(days_back)
    \/ \E days_back \in {6, 7}, dry_run \in BOOLEAN, saved \in BOOLEAN :
          CallAutoTune(days_back, dry_run, saved)
    \/ \E band_key \in {"0.9-1.0", "0.1-0.3"}, saved \in BOOLEAN :
          CallManualUpdate(band_key, <<"Likely">>, saved)

SpecTuner == TunerInit /\ [][TunerNext]_vars


\* the rows the analysis reads that fall into band b, and those that came true
KnownIn(b) ==
    { i \in Known : BandMin[b] <= store[i].confidence_score
                    /\ store[i].confidence_score < BandMax[b] }

HitsIn(b) == { i \in KnownIn(b) : store[i].outcome = "True" }

\* |actual_accuracy - target| of band b, times the band's count, in hundredths
ErrorTimesCount(b) ==
    Abs(100 * Cardinality(HitsIn(b))
        - CalibrationTarget(phrases_data, b) * Cardinality(KnownIn(b)))

FlaggedBands == { ret.bands_needing_adjustment[i].band :
                    i \in 1..Len(ret.bands_needing_adjustment) }

\* C23: analyze_calibration_drift lists a band in bands_needing_adjustment if
\* and only if the band's sample count is at least minimum_samples and
\* |actual_accuracy - target| is strictly greater than calibration_threshold.
C23_FlaggedIffOverThreshold ==
    (ret # <<>> /\ ret.op = "analyze_calibration_drift" /\ ret.raised = "None") =>
        \A b \in BandNames :
            b \in FlaggedBands <=>
                /\ KnownIn(b) # {}
                /\ Cardinality(KnownIn(b)) >= phrases_data.auto_tune_settings.minimum_samples
                /\ ErrorTimesCount(b) >
                     phrases_data.auto_tune_settings.calibration_threshold
                       * Cardinality(KnownIn(b))

\* one band is flagged while another, with enough samples and an error equal to
\* the threshold, is not
C23_Witness ==
    /\ ret # <<>> /\ ret.op = "analyze_calibration_drift" /\ ret.raised = "None"
    /\ FlaggedBands # {}
    /\ \E b \in BandNames \ FlaggedBands :
          /\ Cardinality(KnownIn(b)) >= phrases_data.auto_tune_settings.minimum_samples
          /\ ErrorTimesCount(b) =
               phrases_data.auto_tune_settings.calibration_threshold * Cardinality(KnownIn(b))

\* C24: a call of auto_tune_phrases with dry_run=True leaves every band's
\* phrase list and last-calibrated time, the calibration history and the
\* persisted phrases file unchanged.
C24_DryRunChangesNothing ==
    [][ (input'.op = "auto_tune_phrases" /\ input'.dry_run) =>
            (phrases_data' = phrases_data /\ phrases_file' = phrases_file) ]_vars

\* a dry run reported a band whose phrases it would have rewritten
C24_Witness ==
    /\ ret # <<>> /\ input.op = "auto_tune_phrases" /\ input.dry_run
    /\ ret.status = "completed"
    /\ \E i \in 1..Len(ret.actions_taken) :
          /\ ~ret.actions_taken[i].applied
          /\ ret.actions_taken[i].new_phrases # ret.actions_taken[i].old_phrases
    /\ phrases_data.calibration_history = <<>>

\* the previous phrase list of band k as a history record holds it
RecordsPrevious(rec, k, old) ==
    IF "type" \in DOMAIN rec
    THEN rec.band = k /\ rec.old_phrases = old
    ELSE \E i \in 1..Len(rec.actions) :
            rec.actions[i].band = k /\ rec.actions[i].old_phrases = old

\* C25: every applied change of a band's phrase list, by auto_tune_phrases or
\* by manual_phrase_update, appends one history record that holds the band's
\* phrase list as it was immediately before the change; the records already in
\* the history are neither modified nor removed.
C25_HistoryHoldsPreviousList ==
    [][ /\ Len(phrases_data'.calibration_history) >= Len(phrases_data.calibration_history)
        /\ SubSeq(phrases_data'.calibration_history, 1,
                  Len(phrases_data.calibration_history))
             = phrases_data.calibration_history
        /\ \A k \in DOMAIN phrases_data.confidence_bands :
              (phrases_data'.confidence_bands[k].phrases
                 # phrases_data.confidence_bands[k].phrases) =>
                 /\ Len(phrases_data'.calibration_history)
                      = Len(phrases_data.calibration_history) + 1
                 /\ RecordsPrevious(
                      phrases_data'.calibration_history[
                          Len(phrases_data'.calibration_history)],
                      k, phrases_data.confidence_bands[k].phrases) ]_vars

\* no row with an outcome in the window, or every band below minimum_samples,
\* or no row inside any band
Insufficient ==
    \/ Known = {}
    \/ \A b \in BandNames :
          Cardinality(KnownIn(b)) < phrases_data.auto_tune_settings.minimum_samples
    \/ \A b \in BandNames : KnownIn(b) = {}

\* C26: with insufficient calibration data, and auto-tuning enabled,
\* analyze_calibration_drift and auto_tune_phrases return without raising and
\* flag no band, auto_tune_phrases reports 'no action needed', and no phrase
\* list changes.
C26_InsufficientIsNoAction ==
    [][ (input'.op \in {"analyze_calibration_drift", "auto_tune_phrases"}
         /\ phrases_data.auto_tune_settings.enabled
         /\ Insufficient') =>
            /\ ret'.raised = "None"
            /\ (input'.op = "analyze_calibration_drift" =>
                   ret'.bands_needing_adjustment = <<>>)
            /\ (input'.op = "auto_tune_phrases" => ret'.status = "no_action_needed")
            /\ \A k \in DOMAIN phrases_data.confidence_bands :
                  phrases_data'.confidence_bands[k].phrases
                    = phrases_data.confidence_bands[k].phrases ]_vars


\* what the step handling event' yielded
Answer == SubSeq(out', Len(out) + 1, Len(out'))

\* C28: every function_call_arguments.done event is answered downstream by
\* exactly one of: a tool_result followed by a function_call_completed status,
\* or a tool_error; this holds also for a tool name that is not routed and when
\* no name event preceded. After the event the call state is cleared: no name,
\* empty argument buffer.
C28_ArgsDoneIsAnswered ==
    [][ (Handled /\ event'.type = "response.function_call_arguments.done") =>
           /\ \/ /\ Len(Answer) = 2
                 /\ Answer[1].event = "tool_result"
                 /\ Answer[2].event = "status_update"
                 /\ Answer[2].status = "function_call_completed"
              \/ /\ Len(Answer) = 1
                 /\ Answer[1].event = "tool_error"
           /\ func_call_name' = "None"
           /\ func_call_args_buffer' = <<>> ]_vars


\* C29: a request whose stream emitted response_complete has, once the wrapper
\* has handled that chunk, exactly one log entry, with the emitted
\* confidence_score (0.5 when absent) and the stream's continuation id; before
\* that, and for a stream that ended with error, nothing is stored, and no
\* request stores more than one entry.
C29_OneEntryPerComplete ==
    /\ Len(store) <= 1
    /\ pc # "logged" => store = <<>>
    /\ pc = "logged" =>
          LET e == out[Len(out)]
              cs == FieldOrNone(e.final, "confidence_score").v
          IN /\ Len(store) = 1
             /\ store[1].response_id = e.rid
             /\ store[1].confidence_score = IF cs = JNull THEN 50 ELSE cs.n


(* ====================================================================== *)
(*        response_logger.log_response / log_confidence_entry              *)
(* ====================================================================== *)
\* ids a log call can carry: two continuation ids, or none
LoggedIds == ResponseIds \cup {"None"}

InsertInit ==
    /\ Idle
    /\ schema = "standalone"
    /\ store \in Stores
    /\ sessions = <<>>
    /\ phrases_data = <<>>
    /\ phrases_file = <<>>
    /\ input = <<>>
    /\ ret = <<>>

\* db = self.get_db_session(); db.add(entry): nothing is written yet
BeginInsert ==
    \E rid \in LoggedIds :
        /\ Len(sessions) < MaxCalls
        /\ sessions' = Append(sessions, [response_id |-> rid, at |-> "added", result |-> 0])
        /\ UNCHANGED <<streamVars, tunerVars, store, input, ret>>

\* db.commit(): the row is inserted unless its id is stored already; then the
\* IntegrityError is rolled back and re-raised, and log_response returns None
\* (result 0); otherwise it returns the new row's id
CommitInsert ==
    \E s \in 1..Len(sessions) :
        /\ sessions[s].at = "added"
        /\ IF UniqueOk(sessions[s].response_id)
           THEN /\ store' = Append(store, Row(Len(store) + 1, sessions[s].response_id))
                /\ sessions' = [sessions EXCEPT ![s].at = "closed",
                                                ![s].result = Len(store) + 1]
           ELSE /\ store' = store
                /\ sessions' = [sessions EXCEPT ![s].at = "closed", ![s].result = 0]
        /\ UNCHANGED <<streamVars, tunerVars, input, ret>>

InsertNext ==
    \/ BeginInsert
    \/ CommitInsert

SpecInsert == InsertInit /\ [][InsertNext]_vars

\* C30: after any interleaving of log calls no two stored entries share a
\* non-null continuation id: a log call with an id that is already stored
\* returns None and leaves the store as it was.
C30_StoredIdsUnique ==
    [][ /\ \A i, j \in 1..Len(store') :
              (i # j /\ store'[i].response_id = store'[j].response_id) =>
                  store'[i].response_id = "None"
        /\ \A s \in 1..Len(sessions) :
              ( /\ Len(sessions') = Len(sessions)
                /\ sessions[s].at = "added" /\ sessions'[s].at = "closed"
                /\ sessions[s].response_id # "None"
                /\ \E i \in 1..Len(store) : store[i].response_id = sessions[s].response_id )
              => (store' = store /\ sessions'[s].result = 0) ]_vars

\* two log calls carried the same id: one was stored, the other returned None
C30_Witness ==
    /\ Len(sessions) = 2
    /\ sessions[1].response_id = "resp_1" /\ sessions[2].response_id = "resp_1"
    /\ sessions[1].at = "closed" /\ sessions[2].at = "closed"
    /\ sessions[1].result = 0 /\ sessions[2].result > 0
    /\ Cardinality({ i \in 1..Len(store) : store[i].response_id = "resp_1" }) = 1

====
